---- MODULE Spec2Model ----
(***************************************************************************)
(* Model of the fantasy-football draft import (database_setup.py):         *)
(* the pick-text parser, the pick-number parser and the import pipeline    *)
(* over the four tables teams, players, drafts and draft_picks.            *)
(*                                                                         *)
(* A Python str is a sequence of one-character strings, so that the        *)
(* parsers are computed character by character as the code computes them.  *)
(***************************************************************************)
EXTENDS Integers, Sequences, FiniteSets, TLC

\* ------------------------------------------------------------------------
\* Bounds of the model (not program constants)
\* ------------------------------------------------------------------------

\* longest CSV (number of data rows) an import run reads
MaxRows == 2

\* longest free string over TextAlphabet given to parse_player_string
MaxLen == 4

\* most words in the name part of a composed pick text
MaxWords == 3

\* longest string over PickAlphabet given to parse_pick_number
MaxPickLen == 5

\* longest free content over FileAlphabet of a file given to clean_csv_file
MaxFileLen == 3

\* ------------------------------------------------------------------------
\* Python values
\* ------------------------------------------------------------------------

\* Python's None where a str could stand: no str holds a two-letter element
None == <<"None">>

\* a character outside ASCII is written by its code point, as one element
\* of a str; those of category Zs, which str.isspace() accepts:
UnicodeSpaces ==
    {"U+00A0", "U+2002", "U+2003", "U+2004", "U+2005", "U+2006", "U+2007",
     "U+2008", "U+2009", "U+200A", "U+3000"}

\* the characters str.strip() and the regex class \s treat as whitespace
Whitespace == {" ", "\t", "\n", "\r"} \cup UnicodeSpaces

\* the letters of the status pattern [QIRSP]
StatusLetters == {"Q", "I", "R", "S", "P"}

Digits == {"0", "1", "2", "3", "4", "5", "6", "7", "8", "9"}

DigitVal(c) ==
    CASE c = "0" -> 0 [] c = "1" -> 1 [] c = "2" -> 2 [] c = "3" -> 3
      [] c = "4" -> 4 [] c = "5" -> 5 [] c = "6" -> 6 [] c = "7" -> 7
      [] c = "8" -> 8 [] c = "9" -> 9

Max(S) == CHOOSE x \in S : \A y \in S : y <= x

\* ------------------------------------------------------------------------
\* str methods
\* ------------------------------------------------------------------------

RECURSIVE lstrip(_, _)
lstrip(s, cs) ==
    IF s # <<>> /\ Head(s) \in cs THEN lstrip(Tail(s), cs) ELSE s

RECURSIVE rstrip(_, _)
rstrip(s, cs) ==
    IF s # <<>> /\ s[Len(s)] \in cs
    THEN rstrip(SubSeq(s, 1, Len(s) - 1), cs)
    ELSE s

\* s.strip(chars)
strip_chars(s, cs) == rstrip(lstrip(s, cs), cs)

\* s.strip()
strip(s) == strip_chars(s, Whitespace)

\* s.lower() on the letters the sentinels are spelled with
LowerChar(c) ==
    CASE c = "N" -> "n" [] c = "O" -> "o" [] c = "P" -> "p" [] c = "I" -> "i"
      [] c = "C" -> "c" [] c = "K" -> "k" [] c = "M" -> "m" [] c = "A" -> "a"
      [] c = "D" -> "d" [] c = "E" -> "e" [] c = "T" -> "t" [] c = "R" -> "r"
      [] c = "Q" -> "q" [] c = "S" -> "s" [] c = "W" -> "w" [] c = "L" -> "l"
      [] c = "B" -> "b" [] c = "F" -> "f" [] c = "G" -> "g" [] c = "H" -> "h"
      [] c = "J" -> "j" [] c = "U" -> "u" [] c = "V" -> "v" [] c = "X" -> "x"
      [] c = "Y" -> "y" [] c = "Z" -> "z"
      [] OTHER -> c

lower(s) == [i \in 1..Len(s) |-> LowerChar(s[i])]

\* s.rsplit(c, 1): split once, at the last occurrence of the character c
rsplit1(s, c) ==
    LET I == {i \in 1..Len(s) : s[i] = c}
    IN  IF I = {}
        THEN <<s>>
        ELSE <<SubSeq(s, 1, Max(I) - 1), SubSeq(s, Max(I) + 1, Len(s))>>

\* does sep occur in s at index i
OccursAt(s, sep, i) ==
    /\ i >= 1
    /\ i + Len(sep) - 1 <= Len(s)
    /\ SubSeq(s, i, i + Len(sep) - 1) = sep

\* sep in s
contains(s, sep) == \E i \in 1..Len(s) : OccursAt(s, sep, i)

\* s.split(sep): split at every occurrence of sep, scanning left to right
RECURSIVE split(_, _)
split(s, sep) ==
    LET I == {i \in 1..Len(s) : OccursAt(s, sep, i)}
    IN  IF I = {}
        THEN <<s>>
        ELSE LET i == CHOOSE x \in I : \A y \in I : x <= y
             IN  <<SubSeq(s, 1, i - 1)>>
                   \o split(SubSeq(s, i + Len(sep), Len(s)), sep)

\* s.split(): the maximal runs of non-whitespace characters
RECURSIVE split_ws(_)
split_ws(s) ==
    LET t == lstrip(s, Whitespace)
        W == {i \in 1..Len(t) : t[i] \in Whitespace}
    IN  IF t = <<>>
        THEN <<>>
        ELSE IF W = {}
        THEN <<t>>
        ELSE LET i == CHOOSE x \in W : \A y \in W : x <= y
             IN  <<SubSeq(t, 1, i - 1)>> \o split_ws(SubSeq(t, i, Len(t)))

\* sep.join(parts)
RECURSIVE join(_, _)
join(parts, sep) ==
    IF parts = <<>>
    THEN <<>>
    ELSE IF Len(parts) = 1
    THEN parts[1]
    ELSE parts[1] \o sep \o join(Tail(parts), sep)

\* int(s) for a str s: surrounding whitespace, an optional sign, decimal
\* digits (the strings of the model hold no "_" between digits)
RECURSIVE DecimalValue(_)
DecimalValue(ds) ==
    IF ds = <<>>
    THEN 0
    ELSE 10 * DecimalValue(SubSeq(ds, 1, Len(ds) - 1)) + DigitVal(ds[Len(ds)])

int(s) ==
    LET t == strip(s)
        signed == t # <<>> /\ t[1] \in {"+", "-"}
        ds == IF signed THEN Tail(t) ELSE t
        ok == ds # <<>> /\ \A i \in 1..Len(ds) : ds[i] \in Digits
    IN  [ok |-> ok,
         val |-> IF ~ok THEN 0
                 ELSE IF signed /\ t[1] = "-" THEN 0 - DecimalValue(ds)
                 ELSE DecimalValue(ds)]

\* ------------------------------------------------------------------------
\* the regular expressions of parse_player_string
\* ------------------------------------------------------------------------

\* length of the run of characters of cs that starts at index i
RECURSIVE RunLen(_, _, _)
RunLen(s, i, cs) ==
    IF i <= Len(s) /\ s[i] \in cs THEN 1 + RunLen(s, i + 1, cs) ELSE 0

\* \([QIRSP]+\) matched at index i: the index of its closing parenthesis, or 0
MatchStatusAt(s, i) ==
    IF i >= 1 /\ i <= Len(s) /\ s[i] = "("
    THEN LET k == RunLen(s, i + 1, StatusLetters)
         IN  IF k >= 1 /\ i + 1 + k <= Len(s) /\ s[i + 1 + k] = ")"
             THEN i + 1 + k
             ELSE 0
    ELSE 0

\* re.findall(r'\(([QIRSP]+)\)', s) from index i on: the groups, left to right
RECURSIVE findall_status(_, _)
findall_status(s, i) ==
    IF i > Len(s)
    THEN <<>>
    ELSE LET e == MatchStatusAt(s, i)
         IN  IF e > 0
             THEN <<SubSeq(s, i + 1, e - 1)>> \o findall_status(s, e + 1)
             ELSE findall_status(s, i + 1)

\* re.sub(r'\s*\([QIRSP]+\)', '', s) from index i on
RECURSIVE sub_status(_, _)
sub_status(s, i) ==
    IF i > Len(s)
    THEN <<>>
    ELSE LET w == RunLen(s, i, Whitespace)
             e == MatchStatusAt(s, i + w)
         IN  IF e > 0
             THEN sub_status(s, e + 1)
             ELSE <<s[i]>> \o sub_status(s, i + 1)

\* ------------------------------------------------------------------------
\* FantasyFootballDB.parse_player_string
\* ------------------------------------------------------------------------

\* the "return None" of parse_player_string
NoPlayerInfo == [parsed |-> FALSE]

\* a slip: the name split at its first ", " instead of its last
parse_name_first_comma(name_part) ==
    IF contains(name_part, <<",", " ">>)
    THEN LET name_components == split(name_part, <<",", " ">>)
         IN  [last_name |-> name_components[1],
              first_name |-> join(Tail(name_components), <<",", " ">>)]
    ELSE LET name_words == split_ws(name_part)
         IN  [first_name |-> IF name_words # <<>> THEN name_words[1] ELSE <<>>,
              last_name |-> IF Len(name_words) > 1
                            THEN join(Tail(name_words), <<" ">>)
                            ELSE <<>>]

\* the name part of a pick text: "Last, First", "Last Jr., First" or words
\* a slip: the fallback takes name_words[1] of Python, the second word, as
\* the given name
parse_name_from_second(name_part) ==
    IF contains(name_part, <<",", " ">>)
    THEN LET name_components == split(name_part, <<",", " ">>)
             n == Len(name_components)
         IN  IF n = 2
             THEN [last_name |-> name_components[1],
                   first_name |-> name_components[2]]
             ELSE [last_name |-> join(SubSeq(name_components, 1, n - 1), <<",", " ">>),
                   first_name |-> name_components[n]]
    ELSE LET name_words == split_ws(name_part)
         IN  [first_name |-> IF Len(name_words) > 1 THEN name_words[2] ELSE <<>>,
              last_name |-> IF Len(name_words) > 2
                            THEN join(Tail(Tail(name_words)), <<" ">>)
                            ELSE <<>>]

parse_name(name_part) ==
    IF contains(name_part, <<",", " ">>)
    THEN LET name_components == split(name_part, <<",", " ">>)
             n == Len(name_components)
         IN  IF n = 2
             THEN [last_name |-> name_components[1],
                   first_name |-> name_components[2]]
             ELSE [last_name |-> join(SubSeq(name_components, 1, n - 1), <<",", " ">>),
                   first_name |-> name_components[n]]
    ELSE LET name_words == split_ws(name_part)
         IN  [first_name |-> IF name_words # <<>> THEN name_words[1] ELSE <<>>,
              last_name |-> IF Len(name_words) > 1
                            THEN join(Tail(name_words), <<" ">>)
                            ELSE <<>>]

\* a slip: re.search in place of re.findall, the first indicator only
parse_status_first(player_string) ==
    LET status_matches == findall_status(player_string, 1)
    IN  IF status_matches # <<>> THEN status_matches[1] ELSE None

\* the status of a pick text: the groups joined by a space, or None
parse_status(player_string) ==
    LET status_matches == findall_status(player_string, 1)
    IN  IF status_matches # <<>> THEN join(status_matches, <<" ">>) ELSE None

\* the pick text with every status indicator removed
remove_status(player_string) == sub_status(player_string, 1)

parse_player_string(player_string0) ==
    LET player_string == strip_chars(player_string0, {"\""})
        status == parse_status(player_string)
        stripped == remove_status(player_string)
        parts == rsplit1(stripped, " ")
    IN  IF Len(parts) # 2
        THEN NoPlayerInfo
        ELSE LET name_and_team == parts[1]
                 position == parts[2]
                 name_team_parts == rsplit1(name_and_team, " ")
             IN  IF Len(name_team_parts) # 2
                 THEN NoPlayerInfo
                 ELSE LET name_part == name_team_parts[1]
                          nfl_team == name_team_parts[2]
                          name == parse_name(name_part)
                      IN  [parsed |-> TRUE,
                           first_name |-> strip(name.first_name),
                           last_name |-> strip(name.last_name),
                           nfl_team |-> strip(nfl_team),
                           position |-> strip(position),
                           status |-> status]

\* ------------------------------------------------------------------------
\* FantasyFootballDB.parse_pick_number
\* ------------------------------------------------------------------------

\* the "return None, None" of parse_pick_number
NoPickNumber == [none |-> TRUE, round_num |-> 0, pick_in_round |-> 0]

\* a slip: the first two pieces taken, however many there are
parse_pick_number_two_first(pick_string) ==
    LET pieces == split(pick_string, <<".">>)
    IN  IF Len(pieces) < 2
        THEN NoPickNumber
        ELSE LET round_num == int(pieces[1])
                 pick_in_round == int(pieces[2])
             IN  IF round_num.ok /\ pick_in_round.ok
                 THEN [none |-> FALSE,
                       round_num |-> round_num.val,
                       pick_in_round |-> pick_in_round.val]
                 ELSE NoPickNumber

parse_pick_number(pick_string) ==
    LET pieces == split(pick_string, <<".">>)
    IN  IF Len(pieces) # 2
        THEN NoPickNumber
        ELSE LET round_num == int(pieces[1])
                 pick_in_round == int(pieces[2])
             IN  IF round_num.ok /\ pick_in_round.ok
                 THEN [none |-> FALSE,
                       round_num |-> round_num.val,
                       pick_in_round |-> pick_in_round.val]
                 ELSE NoPickNumber

\* ------------------------------------------------------------------------
\* pandas.read_csv and the conversions of import_csv_data
\* ------------------------------------------------------------------------

\* the columns import_csv_data reads by position: row.iloc[0] .. row.iloc[4]
Columns == <<"year", "pick_number", "overall_pick", "team_name", "player_string">>

\* an integer literal of a CSV cell (the cells of the model carry no sign)
IsIntLiteral(cell) ==
    cell # <<>> /\ \A i \in 1..Len(cell) : cell[i] \in Digits

\* a decimal literal of a CSV cell: digits with one point
IsFloatLiteral(cell) ==
    /\ Cardinality({i \in 1..Len(cell) : cell[i] = "."}) = 1
    /\ Cardinality({i \in 1..Len(cell) : cell[i] \in Digits}) = Len(cell) - 1
    /\ Len(cell) >= 2

\* the dtype read_csv infers for a column from all of its cells; an empty
\* cell is NaN, which an integer column cannot hold, and a column without
\* cells is an object column
column_dtype(cells) ==
    IF cells = <<>>
    THEN "object"
    ELSE IF \A i \in 1..Len(cells) : IsIntLiteral(cells[i])
    THEN "int64"
    ELSE IF \A i \in 1..Len(cells) :
               cells[i] = <<>> \/ IsIntLiteral(cells[i]) \/ IsFloatLiteral(cells[i])
    THEN "float64"
    ELSE "object"

\* df = pd.read_csv(csv_file): the data rows with the dtype of every column
read_csv(csv_file) ==
    [rows |-> csv_file,
     dtypes |-> [c \in {Columns[k] : k \in 1..Len(Columns)} |->
                    column_dtype([i \in 1..Len(csv_file) |-> csv_file[i][c]])]]

\* the digits before and after the point of a numeric cell
IntDigits(cell) ==
    LET I == {i \in 1..Len(cell) : cell[i] = "."}
    IN  IF I = {} THEN cell ELSE SubSeq(cell, 1, Max(I) - 1)

FracDigits(cell) ==
    LET I == {i \in 1..Len(cell) : cell[i] = "."}
    IN  IF I = {} THEN <<>> ELSE SubSeq(cell, Max(I) + 1, Len(cell))

\* str(v) of a float v read from a numeric cell: the shortest decimal form
float_str(cell) ==
    LET ip == lstrip(IntDigits(cell), {"0"})
        fp == rstrip(FracDigits(cell), {"0"})
    IN  (IF ip = <<>> THEN <<"0">> ELSE ip) \o <<".">>
          \o (IF fp = <<>> THEN <<"0">> ELSE fp)

\* str(row.iloc[k]) of a cell of a column of the given dtype
cell_str(dtype, cell) ==
    CASE dtype = "int64" ->
           LET ip == lstrip(cell, {"0"}) IN IF ip = <<>> THEN <<"0">> ELSE ip
      [] dtype = "float64" ->
           IF cell = <<>> THEN <<"n", "a", "n">> ELSE float_str(cell)
      [] OTHER ->
           IF cell = <<>> THEN <<"n", "a", "n">> ELSE cell

\* int(row.iloc[k]) of a cell of a column of the given dtype; ~ok is the
\* ValueError of int(nan) or of int of a str that is no integer literal
cell_int(dtype, cell) ==
    CASE dtype = "int64" -> [ok |-> TRUE, val |-> DecimalValue(cell)]
      [] dtype = "float64" ->
           IF cell = <<>>
           THEN [ok |-> FALSE, val |-> 0]
           ELSE [ok |-> TRUE, val |-> DecimalValue(IntDigits(cell))]
      [] OTHER ->
           IF cell = <<>> THEN [ok |-> FALSE, val |-> 0] ELSE int(cell)

\* ------------------------------------------------------------------------
\* The input: CSV data rows of five cells each
\* ------------------------------------------------------------------------

Y2024 == <<"2", "0", "2", "4">>
Y2025 == <<"2", "0", "2", "5">>
Empty == <<>>
Alpha == <<"A", "l", "p", "h", "a">>
Bravo == <<"B", "r", "a", "v", "o">>

\* "Lamb, Cee DAL WR (Q)"
TextLamb ==
    <<"L", "a", "m", "b", ",", " ", "C", "e", "e", " ", "D", "A", "L", " ",
      "W", "R", " ", "(", "Q", ")">>

\* "Hall Jr., Max ARI WR (R) (Q)"
TextHall ==
    <<"H", "a", "l", "l", " ", "J", "r", ".", ",", " ", "M", "a", "x", " ",
      "A", "R", "I", " ", "W", "R", " ", "(", "R", ")", " ", "(", "Q", ")">>

\* "No Pick Made"
TextNoPickMade ==
    <<"N", "o", " ", "P", "i", "c", "k", " ", "M", "a", "d", "e">>

\* " TIMER"
TextTimer == <<" ", "T", "I", "M", "E", "R">>

\* "no pick"
TextNoPick == <<"n", "o", " ", "p", "i", "c", "k">>

\* "Bye": a pick text without a team and a position
TextBye == <<"B", "y", "e">>

Row(y, p, o, tn, ps) ==
    [year |-> y, pick_number |-> p, overall_pick |-> o, team_name |-> tn,
     player_string |-> ps]

\* the data rows a CSV file of the model is made of: picks, two picks with
\* the same year and overall pick, non-picks, and rows with a malformed
\* pick text, pick number, year or overall pick
Rows ==
    { Row(Y2024, <<"1", ".", "0", "1">>, <<"1">>, Alpha, TextLamb),
      Row(Y2024, <<"1", ".", "0", "1">>, <<"1">>, Bravo, TextHall),
      Row(Y2025, <<"2", ".", "1", "0">>, <<"2">>, Bravo, TextHall),
      Row(Y2024, <<"1", ".", "0", "2">>, <<"2">>, Alpha, TextNoPickMade),
      Row(Empty, <<"1", ".", "0", "3">>, <<"3">>, Bravo, TextTimer),
      Row(Y2025, <<"1", ".", "0", "1">>, <<"1">>, Alpha, TextBye),
      Row(Y2025, <<"a", "b", "c">>, <<"1">>, Alpha, TextLamb),
      Row(Y2025, <<"2", ".", "1", "0">>, <<"x">>, Bravo, TextLamb),
      Row(Y2024, <<"a", "b", "c">>, <<"2">>, Alpha, TextNoPick),
      Row(Y2025, <<"0", ".", "5">>, <<"3">>, Alpha, TextLamb) }

RECURSIVE SeqsUpTo(_, _)
SeqsUpTo(S, n) ==
    IF n = 0
    THEN {<<>>}
    ELSE LET shorter == SeqsUpTo(S, n - 1)
         IN  shorter \cup {Append(q, x) : q \in shorter, x \in S}

\* the CSV files of the model: up to MaxRows data rows
CsvFiles == SeqsUpTo(Rows, MaxRows)

\* ------------------------------------------------------------------------
\* State
\* ------------------------------------------------------------------------

VARIABLES
    tables_created,   \* the four tables exist in the database file
    teams,            \* rows of teams, as this connection sees them
    players,          \* rows of players
    drafts,           \* rows of drafts
    draft_picks,      \* rows of draft_picks
    sqlite_sequence,  \* the AUTOINCREMENT counter of every table
    committed,        \* the four tables as of the last commit
    pc,               \* where main is: "idle" (not running), "connected",
                      \* "created" (the tables are), "rows" (in the loop of
                      \* import_csv_data), "done" (import_csv_data has
                      \* returned), "not_found" (no CSV file, message printed)
                      \* or "interrupted" (an exception left the loop)
    df,               \* the DataFrame of the current or the last import
    index,            \* number of rows of df the loop has processed
    imported_count,
    error_count,
    skipped_count,
    rerun,            \* this import reads the CSV file of the import before it
    before,           \* the tables when this import started
    call,             \* a call of a function on its own: function, arguments,
                      \* the files or the page it works on, result
    csv_exists,       \* os.path.exists(csv_file), for the run of main in progress
    conns             \* the connections of import runs that share the database
                      \* file, each with its transaction and its place in the loop

db_vars == <<teams, players, drafts, draft_picks, sqlite_sequence>>

vars ==
    <<tables_created, teams, players, drafts, draft_picks, sqlite_sequence,
      committed, pc, df, index, imported_count, error_count, skipped_count,
      rerun, before, call, csv_exists, conns>>

\* the tables as one value
Tables ==
    [teams |-> teams, players |-> players, drafts |-> drafts,
     draft_picks |-> draft_picks]

RowCounts(T) ==
    [teams |-> Cardinality(T.teams), players |-> Cardinality(T.players),
     drafts |-> Cardinality(T.drafts),
     draft_picks |-> Cardinality(T.draft_picks)]

\* ------------------------------------------------------------------------
\* SQL statements; D is the database as the connection sees it:
\* [teams, players, drafts, draft_picks, seq]
\* ------------------------------------------------------------------------

LeagueName == "La Resistance"

Min(S) == CHOOSE x \in S : \A y \in S : x <= y

\* cursor.fetchone()[0] of a SELECT of an id: the first row's id, and ~ok
\* for the TypeError of None[0] when the SELECT returns no row
fetchone(ids) ==
    IF ids = {} THEN [ok |-> FALSE, id |-> 0] ELSE [ok |-> TRUE, id |-> Min(ids)]

\* a slip: the table declared without UNIQUE on team_name
insert_team_always(D, team_name) ==
    [D EXCEPT
       !.teams = @ \cup {[team_id |-> D.seq.teams + 1,
                          team_name |-> team_name,
                          owner_name |-> None]},
       !.seq.teams = @ + 1]

\* INSERT OR IGNORE INTO teams (team_name): UNIQUE(team_name)
insert_or_ignore_team(D, team_name) ==
    IF \E r \in D.teams : r.team_name = team_name
    THEN D
    ELSE [D EXCEPT
            !.teams = @ \cup {[team_id |-> D.seq.teams + 1,
                               team_name |-> team_name,
                               owner_name |-> None]},
            !.seq.teams = @ + 1]

insert_team(D, team_name) ==
    LET D1 == insert_or_ignore_team(D, team_name)
        got == fetchone({r.team_id : r \in {x \in D1.teams : x.team_name = team_name}})
    IN  [db |-> D1, ok |-> got.ok, id |-> got.id]

SamePlayer(r, first_name, last_name, nfl_team, position) ==
    /\ r.first_name = first_name
    /\ r.last_name = last_name
    /\ r.nfl_team = nfl_team
    /\ r.position = position

\* INSERT OR IGNORE INTO players: UNIQUE(first_name, last_name, nfl_team, position)
\* a slip: the table declared without
\* UNIQUE(first_name, last_name, nfl_team, position)
insert_player_always(D, first_name, last_name, nfl_team, position) ==
    [D EXCEPT
       !.players = @ \cup {[player_id |-> D.seq.players + 1,
                            first_name |-> first_name,
                            last_name |-> last_name,
                            nfl_team |-> nfl_team,
                            position |-> position]},
       !.seq.players = @ + 1]

insert_or_ignore_player(D, first_name, last_name, nfl_team, position) ==
    IF \E r \in D.players : SamePlayer(r, first_name, last_name, nfl_team, position)
    THEN D
    ELSE [D EXCEPT
            !.players = @ \cup {[player_id |-> D.seq.players + 1,
                                 first_name |-> first_name,
                                 last_name |-> last_name,
                                 nfl_team |-> nfl_team,
                                 position |-> position]},
            !.seq.players = @ + 1]

insert_player(D, first_name, last_name, nfl_team, position) ==
    LET D1 == insert_or_ignore_player(D, first_name, last_name, nfl_team, position)
        got == fetchone({r.player_id : r \in
                   {x \in D1.players :
                       SamePlayer(x, first_name, last_name, nfl_team, position)}})
    IN  [db |-> D1, ok |-> got.ok, id |-> got.id]

\* INSERT OR IGNORE INTO drafts (year, league_name): UNIQUE(year, league_name)
insert_or_ignore_draft(D, year, league_name) ==
    IF \E r \in D.drafts : r.year = year /\ r.league_name = league_name
    THEN D
    ELSE [D EXCEPT
            !.drafts = @ \cup {[draft_id |-> D.seq.drafts + 1,
                                year |-> year,
                                draft_date |-> None,
                                league_name |-> league_name]},
            !.seq.drafts = @ + 1]

\* a slip insert_draft could make: the id taken from cursor.lastrowid,
\* which is 0 on a fresh cursor whose INSERT was ignored
insert_draft_lastrowid(D, year) ==
    LET D1 == insert_or_ignore_draft(D, year, LeagueName)
    IN  [db |-> D1, ok |-> TRUE,
         id |-> IF D1 = D THEN 0 ELSE D1.seq.drafts]

insert_draft(D, year) ==
    LET D1 == insert_or_ignore_draft(D, year, LeagueName)
        got == fetchone({r.draft_id : r \in
                   {x \in D1.drafts : x.year = year /\ x.league_name = LeagueName}})
    IN  [db |-> D1, ok |-> got.ok, id |-> got.id]

\* the row of draft_picks an INSERT of these values makes
PickRow(D, draft_id, team_id, player_id, round_num, pick_in_round, overall_pick, status) ==
    [pick_id |-> D.seq.draft_picks + 1,
     draft_id |-> draft_id,
     team_id |-> team_id,
     player_id |-> player_id,
     round_number |-> round_num,
     pick_in_round |-> pick_in_round,
     overall_pick |-> overall_pick,
     player_status |-> status]

\* a slip: the table declared without UNIQUE(draft_id, overall_pick)
insert_pick_always(D, draft_id, team_id, player_id, round_num, pick_in_round, overall_pick, status) ==
    [D EXCEPT
       !.draft_picks = @ \cup {PickRow(D, draft_id, team_id, player_id, round_num,
                                       pick_in_round, overall_pick, status)},
       !.seq.draft_picks = @ + 1]

\* a slip: INSERT OR REPLACE, which deletes the row that holds the key
insert_or_replace_pick(D, draft_id, team_id, player_id, round_num, pick_in_round, overall_pick, status) ==
    [D EXCEPT
       !.draft_picks =
           {r \in @ : ~(r.draft_id = draft_id /\ r.overall_pick = overall_pick)}
             \cup {PickRow(D, draft_id, team_id, player_id, round_num,
                           pick_in_round, overall_pick, status)},
       !.seq.draft_picks = @ + 1]

\* a slip: ON CONFLICT(draft_id, overall_pick) DO UPDATE, which overwrites
\* the row that holds the key
insert_or_update_pick(D, draft_id, team_id, player_id, round_num, pick_in_round, overall_pick, status) ==
    IF \E r \in D.draft_picks :
           r.draft_id = draft_id /\ r.overall_pick = overall_pick
    THEN [D EXCEPT
            !.draft_picks =
                {IF r.draft_id = draft_id /\ r.overall_pick = overall_pick
                 THEN [r EXCEPT !.team_id = team_id,
                                !.player_id = player_id,
                                !.round_number = round_num,
                                !.pick_in_round = pick_in_round,
                                !.player_status = status]
                 ELSE r : r \in @}]
    ELSE [D EXCEPT
            !.draft_picks = @ \cup {PickRow(D, draft_id, team_id, player_id,
                                            round_num, pick_in_round,
                                            overall_pick, status)},
            !.seq.draft_picks = @ + 1]

\* INSERT OR IGNORE INTO draft_picks: UNIQUE(draft_id, overall_pick)
insert_or_ignore_pick(D, draft_id, team_id, player_id, round_num, pick_in_round, overall_pick, status) ==
    IF \E r \in D.draft_picks :
           r.draft_id = draft_id /\ r.overall_pick = overall_pick
    THEN D
    ELSE [D EXCEPT
            !.draft_picks = @ \cup {PickRow(D, draft_id, team_id, player_id,
                                            round_num, pick_in_round,
                                            overall_pick, status)},
            !.seq.draft_picks = @ + 1]

\* ------------------------------------------------------------------------
\* FantasyFootballDB.import_csv_data: one pass of the loop body
\* ------------------------------------------------------------------------

\* player_string.strip().lower() in ['no pick made', 'no pick', 'timer']
is_no_pick(player_string) ==
    lower(strip(player_string)) \in
        { <<"n", "o", " ", "p", "i", "c", "k", " ", "m", "a", "d", "e">>,
          <<"n", "o", " ", "p", "i", "c", "k">>,
          <<"t", "i", "m", "e", "r">> }

\* a slip: the check of the parsed round left out
not_round_num_unchecked(pick) == FALSE

\* "if not round_num": None, and the integer 0 as well
not_round_num(pick) == pick.none \/ pick.round_num = 0

\* the inserts of a row that parsed: draft, team, player, then the pick;
\* ~ok when a lookup raises
insert_row(D, year, team_name, player_info, pick, overall_pick) ==
    LET d == insert_draft(D, year)
        t == insert_team(d.db, team_name)
        p == insert_player(t.db, player_info.first_name, player_info.last_name,
                           player_info.nfl_team, player_info.position)
    IN  IF ~d.ok THEN [db |-> d.db, ok |-> FALSE]
        ELSE IF ~t.ok THEN [db |-> t.db, ok |-> FALSE]
        ELSE IF ~p.ok THEN [db |-> p.db, ok |-> FALSE]
        ELSE [db |-> insert_or_ignore_pick(p.db, d.id, t.id, p.id, pick.round_num,
                                           pick.pick_in_round, overall_pick,
                                           player_info.status),
              ok |-> TRUE]

\* the body of the loop for one row of df: the database after it, and the
\* counter it increments ("imported", "skipped" or "error")
process_row(D, dtypes, row) ==
    LET year == cell_int(dtypes["year"], row.year)
        pick_number == cell_str(dtypes["pick_number"], row.pick_number)
        overall_pick == cell_int(dtypes["overall_pick"], row.overall_pick)
        team_name == cell_str(dtypes["team_name"], row.team_name)
        player_string == cell_str(dtypes["player_string"], row.player_string)
        player_info == parse_player_string(player_string)
        pick == parse_pick_number(pick_number)
    IN  IF ~year.ok \/ ~overall_pick.ok
        THEN [db |-> D, outcome |-> "error"]
        ELSE IF is_no_pick(player_string)
        THEN [db |-> D, outcome |-> "skipped"]
        ELSE IF ~player_info.parsed
        THEN [db |-> D, outcome |-> "error"]
        ELSE IF not_round_num(pick)
        THEN [db |-> D, outcome |-> "error"]
        ELSE LET done == insert_row(D, year.val, team_name, player_info, pick,
                                    overall_pick.val)
             IN  [db |-> done.db,
                  outcome |-> IF done.ok THEN "imported" ELSE "error"]

\* a slip: no "continue" after "skipped_count += 1", so that the sentinel
\* goes on to the parser, fails there and is counted once more
count_row_without_continue(outcome) ==
    [imported |-> IF outcome = "imported" THEN 1 ELSE 0,
     skipped |-> IF outcome = "skipped" THEN 1 ELSE 0,
     error |-> IF outcome \in {"error", "skipped"} THEN 1 ELSE 0]

\* what a row adds to imported_count, skipped_count and error_count: the
\* "+= 1" on the path the row takes through the loop body
count_row(outcome) ==
    [imported |-> IF outcome = "imported" THEN 1 ELSE 0,
     skipped |-> IF outcome = "skipped" THEN 1 ELSE 0,
     error |-> IF outcome = "error" THEN 1 ELSE 0]

\* a slip: an errored row ends the loop
next_index_abort(i, n, outcome) == IF outcome = "error" THEN n ELSE i + 1

\* the for loop goes on to the next row after every outcome: "continue",
\* the end of the body, and the except clause all stay inside the loop
next_index(i, n, outcome) == i + 1

\* ------------------------------------------------------------------------
\* Initial state and actions
\* ------------------------------------------------------------------------

NoTables == [teams |-> {}, players |-> {}, drafts |-> {}, draft_picks |-> {}]

\* the connection's view of the database as one value
Database ==
    [teams |-> teams, players |-> players, drafts |-> drafts,
     draft_picks |-> draft_picks, seq |-> sqlite_sequence]

\* no parser is called on its own
NoCall == [fn |-> "none"]

\* no import run shares the database file with another
NoConns == <<>>

\* a new database file, before main runs
InitImport ==
    /\ tables_created = FALSE
    /\ teams = {}
    /\ players = {}
    /\ drafts = {}
    /\ draft_picks = {}
    /\ sqlite_sequence = [teams |-> 0, players |-> 0, drafts |-> 0, draft_picks |-> 0]
    /\ committed = NoTables
    /\ pc = "idle"
    /\ df = read_csv(<<>>)
    /\ index = 0
    /\ imported_count = 0
    /\ error_count = 0
    /\ skipped_count = 0
    /\ rerun = FALSE
    /\ before = NoTables
    /\ csv_exists = FALSE
    /\ conns = NoConns

Init == InitImport /\ call = NoCall

\* main starts: FantasyFootballDB() and connect(); whether the CSV file is
\* there is the environment's, and is what os.path.exists will find
connect ==
    /\ pc = "idle"
    /\ csv_exists' \in BOOLEAN
    /\ pc' = "connected"
    /\ UNCHANGED <<db_vars, tables_created, committed, df, index, imported_count,
                   error_count, skipped_count, rerun, before, call, conns>>

\* create_tables: CREATE TABLE IF NOT EXISTS, four times, and a commit
create_tables ==
    /\ pc = "connected"
    /\ tables_created' = TRUE
    /\ committed' = Tables
    /\ pc' = "created"
    /\ UNCHANGED <<db_vars, df, index, imported_count, error_count,
                   skipped_count, rerun, before, call, csv_exists, conns>>

\* import_csv_data up to the loop: read the file, zero the counters.
\* main creates the tables before it imports.
import_begin ==
    /\ pc = "created"
    /\ csv_exists
    /\ tables_created
    /\ \E csv_file \in CsvFiles : df' = read_csv(csv_file)
    /\ rerun' = FALSE
    /\ before' = Tables
    /\ index' = 0
    /\ imported_count' = 0
    /\ error_count' = 0
    /\ skipped_count' = 0
    /\ pc' = "rows"
    /\ UNCHANGED <<db_vars, tables_created, committed, call, csv_exists, conns>>

\* one iteration of "for index, row in df.iterrows()"
import_row ==
    /\ pc = "rows"
    /\ index < Len(df.rows)
    /\ \E r \in {process_row(Database, df.dtypes, df.rows[index + 1])} :
           /\ teams' = r.db.teams
           /\ players' = r.db.players
           /\ drafts' = r.db.drafts
           /\ draft_picks' = r.db.draft_picks
           /\ sqlite_sequence' = r.db.seq
           /\ imported_count' = imported_count + count_row(r.outcome).imported
           /\ skipped_count' = skipped_count + count_row(r.outcome).skipped
           /\ error_count' = error_count + count_row(r.outcome).error
           /\ index' = next_index(index, Len(df.rows), r.outcome)
    /\ UNCHANGED <<tables_created, committed, pc, df, rerun, before, call, csv_exists, conns>>

\* main when os.path.exists(csv_file) is false: the message, no import
csv_not_found ==
    /\ pc = "created"
    /\ ~csv_exists
    /\ pc' = "not_found"
    /\ UNCHANGED <<db_vars, tables_created, committed, df, index, imported_count,
                   error_count, skipped_count, rerun, before, call, csv_exists,
                   conns>>

\* the end of import_csv_data: the loop is over, commit and return
import_end ==
    /\ pc = "rows"
    /\ index >= Len(df.rows)
    /\ committed' = Tables
    /\ pc' = "done"
    /\ UNCHANGED <<db_vars, tables_created, df, index, imported_count,
                   error_count, skipped_count, rerun, before, call, csv_exists, conns>>

\* import_csv_data called again on the same, unchanged CSV file
import_again ==
    /\ pc = "done"
    /\ df' = read_csv(df.rows)
    /\ rerun' = TRUE
    /\ before' = Tables
    /\ index' = 0
    /\ imported_count' = 0
    /\ error_count' = 0
    /\ skipped_count' = 0
    /\ pc' = "rows"
    /\ UNCHANGED <<db_vars, tables_created, committed, call, csv_exists, conns>>

\* the rest of main: the three counts, close, and the end of the process,
\* or the end of a process that an exception stopped; the database file is
\* what remains
close ==
    /\ pc \in {"done", "not_found", "interrupted"}
    /\ teams' = committed.teams
    /\ players' = committed.players
    /\ drafts' = committed.drafts
    /\ draft_picks' = committed.draft_picks
    /\ pc' = "idle"
    /\ df' = read_csv(<<>>)
    /\ index' = 0
    /\ imported_count' = 0
    /\ error_count' = 0
    /\ skipped_count' = 0
    /\ rerun' = FALSE
    /\ before' = NoTables
    /\ csv_exists' = FALSE
    /\ UNCHANGED <<tables_created, sqlite_sequence, committed, call, conns>>

Next ==
    \/ connect
    \/ create_tables
    \/ import_begin
    \/ csv_not_found
    \/ import_row
    \/ import_end
    \/ import_again
    \/ close

Spec == Init /\ [][Next]_vars

\* ------------------------------------------------------------------------
\* An import that an exception stops
\* ------------------------------------------------------------------------

\* a slip: a connection in autocommit mode (isolation_level=None), of which
\* every statement is in the file at once
close_in_autocommit(D, C) == D

\* the database after a connection with an open transaction goes away
\* without a commit: the transaction is rolled back, sqlite_sequence with it
close_without_commit(D, C) ==
    [teams |-> C.teams, players |-> C.players, drafts |-> C.drafts,
     draft_picks |-> C.draft_picks,
     seq |-> [teams |-> Cardinality(C.teams),
              players |-> Cardinality(C.players),
              drafts |-> Cardinality(C.drafts),
              draft_picks |-> Cardinality(C.draft_picks)]]

\* an exception that "except Exception" does not catch (KeyboardInterrupt,
\* SystemExit) is raised in the loop, before the commit: it leaves
\* import_csv_data and main, and the connection goes away uncommitted
interrupt ==
    /\ pc = "rows"
    /\ \E r \in {close_without_commit(Database, committed)} :
           /\ teams' = r.teams
           /\ players' = r.players
           /\ drafts' = r.drafts
           /\ draft_picks' = r.draft_picks
           /\ sqlite_sequence' = r.seq
           /\ committed' = [teams |-> r.teams, players |-> r.players,
                            drafts |-> r.drafts, draft_picks |-> r.draft_picks]
    /\ pc' = "interrupted"
    /\ UNCHANGED <<tables_created, df, index, imported_count, error_count,
                   skipped_count, rerun, before, call, csv_exists, conns>>

NextInterrupt == Next \/ interrupt

SpecInterrupt == Init /\ [][NextInterrupt]_vars

\* ------------------------------------------------------------------------
\* The parsers called on their own, on strings drawn from bounded sets
\* ------------------------------------------------------------------------

\* characters of the free pick texts
TextAlphabet == {"a", " ", ",", "(", ")", "Q", "\""}

\* characters of the pick-number strings
PickAlphabet == {"0", "1", "2", ".", " ", "a"}

\* words of a name, one of them a status indicator inside the name
NameWords == { <<"a">>, <<"J", "r", ".">>, <<"(", "R", ")">> }

\* what separates two words of a name
NameSeparators == { <<" ">>, <<",", " ">> }

RECURSIVE NamesOf(_)
NamesOf(n) ==
    IF n = 1
    THEN NameWords
    ELSE {nm \o sep \o w : nm \in NamesOf(n - 1), sep \in NameSeparators, w \in NameWords}

Names == UNION {NamesOf(n) : n \in 1..MaxWords}

NflTeams == { <<"D", "A", "L">>, <<"S", "F">> }

Positions == { <<"W", "R">>, <<"Q", "B">> }

\* what follows the position in a pick text: nothing, or status indicators
StatusTails ==
    { <<>>,
      <<" ", "(", "Q", ")">>,
      <<"(", "Q", ")">>,
      <<" ", "(", "R", ")", " ", "(", "Q", ")">>,
      <<" ", "(", "I", "R", ")", "(", "S", ")">> }

\* parentheses that are not, or not only, status indicators
OtherTails ==
    { <<" ", "(", "X", ")">>,
      <<" ", "(", ")">>,
      <<"(", "(", "Q", ")", "Q", ")">>,
      <<" ", "(", "Q", " ", "(", "R", ")", ")">> }

Tails == StatusTails \cup OtherTails

\* a pick text composed as <name> <TEAM> <POS><tail>
Compose(name, team, position, tail) == name \o <<" ">> \o team \o <<" ">> \o position \o tail

ComposedCalls ==
    { [fn |-> "parse_player_string",
       arg |-> Compose(nm, tm, ps, tl),
       composed |-> TRUE,
       name |-> nm, nfl_team |-> tm, position |-> ps, tail |-> tl,
       returned |-> FALSE,
       ret |-> NoPlayerInfo] :
         nm \in Names, tm \in NflTeams, ps \in Positions, tl \in Tails }

FreeCalls ==
    { [fn |-> "parse_player_string",
       arg |-> s,
       composed |-> FALSE,
       name |-> None, nfl_team |-> None, position |-> None, tail |-> None,
       returned |-> FALSE,
       ret |-> NoPlayerInfo] : s \in SeqsUpTo(TextAlphabet, MaxLen) }

PickCalls ==
    { [fn |-> "parse_pick_number",
       arg |-> s,
       returned |-> FALSE,
       ret |-> NoPickNumber] : s \in SeqsUpTo(PickAlphabet, MaxPickLen) }

InitParse == InitImport /\ call \in ComposedCalls \cup FreeCalls \cup PickCalls

import_vars ==
    <<tables_created, teams, players, drafts, draft_picks, sqlite_sequence,
      committed, pc, df, index, imported_count, error_count, skipped_count,
      rerun, before, csv_exists, conns>>

call_parse_player_string ==
    /\ call.fn = "parse_player_string"
    /\ ~call.returned
    /\ call' = [call EXCEPT !.returned = TRUE, !.ret = parse_player_string(call.arg)]
    /\ UNCHANGED import_vars

call_parse_pick_number ==
    /\ call.fn = "parse_pick_number"
    /\ ~call.returned
    /\ call' = [call EXCEPT !.returned = TRUE, !.ret = parse_pick_number(call.arg)]
    /\ UNCHANGED import_vars

NextParse == call_parse_player_string \/ call_parse_pick_number

SpecParse == InitParse /\ [][NextParse]_vars

\* ------------------------------------------------------------------------
\* Properties of parse_player_string
\* ------------------------------------------------------------------------

PlayerCallReturned == call.fn = "parse_player_string" /\ call.returned

\* a pick text of the form '<name> <TEAM> <POS>' optionally followed by
\* status flags: the name is words without parentheses, joined by single
\* spaces or by ', '
IsPickForm ==
    /\ call.fn = "parse_player_string"
    /\ call.composed
    /\ call.tail \in StatusTails
    /\ \A i \in 1..Len(call.name) : call.name[i] \notin {"(", ")"}

\* the split of a name the claim describes: at its last ', ' when it has
\* one, else after its first word
ExpectedName(name) ==
    LET C == {i \in 1..(Len(name) - 1) : name[i] = "," /\ name[i + 1] = " "}
        S == {i \in 1..Len(name) : name[i] = " "}
    IN  IF C # {}
        THEN [last_name |-> SubSeq(name, 1, Max(C) - 1),
              first_name |-> SubSeq(name, Max(C) + 2, Len(name))]
        ELSE IF S # {}
        THEN [first_name |-> SubSeq(name, 1, Min(S) - 1),
              last_name |-> SubSeq(name, Min(S) + 1, Len(name))]
        ELSE [first_name |-> name, last_name |-> <<>>]

\* C5: for every pick text of the form '<name> <TEAM> <POS>' optionally
\* followed by status flags, parse_player_string returns a record whose
\* position is the last token, whose nfl_team is the token before it, and
\* whose first_name and last_name split the name at its last ', ' (last name
\* before, first name after) or, without ', ', after its first word.
C5_NameTeamPosition ==
    (PlayerCallReturned /\ IsPickForm) =>
        /\ call.ret.parsed
        /\ call.ret.position = call.position
        /\ call.ret.nfl_team = call.nfl_team
        /\ call.ret.first_name = ExpectedName(call.name).first_name
        /\ call.ret.last_name = ExpectedName(call.name).last_name

\* "a Jr., a DAL WR (R) (Q)" parsed, as 'Harrison Jr., Marvin' is
C5_Witness ==
    /\ PlayerCallReturned
    /\ IsPickForm
    /\ call.name = <<"a", " ", "J", "r", ".", ",", " ", "a">>
    /\ call.tail = <<" ", "(", "R", ")", " ", "(", "Q", ")">>
    /\ call.ret.parsed
    /\ call.ret.last_name = <<"a", " ", "J", "r", ".">>
    /\ call.ret.first_name = <<"a">>
    /\ call.ret.nfl_team = call.nfl_team
    /\ call.ret.position = call.position

\* where a parenthesized run of status letters starts in s
RunStarts(s) ==
    {i \in 1..Len(s) :
        /\ s[i] = "("
        /\ \E k \in 1..Len(s) :
              /\ i + k + 1 <= Len(s)
              /\ \A j \in (i + 1)..(i + k) : s[j] \in StatusLetters
              /\ s[i + k + 1] = ")"}

\* the letters of the run that starts at i
RunContents(s, i) ==
    LET closing == Min({j \in (i + 1)..Len(s) : s[j] = ")"})
    IN  SubSeq(s, i + 1, closing - 1)

\* the contents of the runs that start in I, in order of appearance, joined
\* by single spaces
RECURSIVE JoinRuns(_, _)
JoinRuns(s, I) ==
    IF I = {}
    THEN <<>>
    ELSE IF Cardinality(I) = 1
    THEN RunContents(s, Min(I))
    ELSE RunContents(s, Min(I)) \o <<" ">> \o JoinRuns(s, I \ {Min(I)})

ExpectedStatus(s) == IF RunStarts(s) = {} THEN None ELSE JoinRuns(s, RunStarts(s))

\* the fields of a returned record other than status
OtherFields(info) ==
    {info.first_name, info.last_name, info.nfl_team, info.position}

\* every parenthesis of s belongs to a parenthesized run of status letters
OnlyStatusParens(s) ==
    \A j \in 1..Len(s) :
        s[j] \in {"(", ")"} =>
            \E i \in RunStarts(s) : i <= j /\ j <= i + Len(RunContents(s, i)) + 1

\* C6 (as amended): a returned record's status is the contents of every
\* parenthesized run of status letters of the pick text, in order of
\* appearance and joined by single spaces, or None when the text has no such
\* run; and when the text has no parenthesis outside these runs, no other
\* returned field holds a parenthesis.
C6_StatusOfRuns ==
    (PlayerCallReturned /\ call.ret.parsed) =>
        /\ call.ret.status = ExpectedStatus(call.arg)
        /\ OnlyStatusParens(call.arg) =>
              \A f \in OtherFields(call.ret) :
                  \A i \in 1..Len(f) : f[i] \notin {"(", ")"}

\* C6 as stated: the status is that of the runs, and no other returned field
\* holds a parenthesized run of status letters
C6_AsStated ==
    (PlayerCallReturned /\ call.ret.parsed) =>
        /\ call.ret.status = ExpectedStatus(call.arg)
        /\ \A f \in OtherFields(call.ret) : RunStarts(f) = {}

\* "a (R) a DAL QB (IR)(S)" parsed: three runs, one of them inside the name
C6_Witness ==
    /\ PlayerCallReturned
    /\ call.ret.parsed
    /\ call.composed
    /\ call.name = <<"a", " ", "(", "R", ")", " ", "a">>
    /\ call.tail = <<" ", "(", "I", "R", ")", "(", "S", ")">>
    /\ OnlyStatusParens(call.arg)
    /\ call.ret.status = <<"R", " ", "I", "R", " ", "S">>
    /\ call.ret.first_name = <<"a">>
    /\ call.ret.last_name = <<"a">>

\* ------------------------------------------------------------------------
\* Properties of parse_pick_number
\* ------------------------------------------------------------------------

PickCallReturned == call.fn = "parse_pick_number" /\ call.returned

\* a string Python's int() converts: an optional sign and decimal digits,
\* with whitespace around them allowed
Convertible(s) ==
    \E a \in 1..Len(s), b \in 1..Len(s) :
        /\ a <= b
        /\ \A i \in 1..(a - 1) : s[i] \in Whitespace
        /\ \A i \in (b + 1)..Len(s) : s[i] \in Whitespace
        /\ \/ \A i \in a..b : s[i] \in Digits
           \/ a < b /\ s[a] \in {"+", "-"} /\ \A i \in (a + 1)..b : s[i] \in Digits

\* the decimal value of the digits of s
DigitsValue(s) ==
    LET ds == SelectSeq(s, LAMBDA c : c \in Digits)
    IN  (IF \E i \in 1..Len(s) : s[i] = "-" THEN -1 ELSE 1) * DecimalValue(ds)

Dots(s) == {i \in 1..Len(s) : s[i] = "."}

\* C7: parse_pick_number returns (round, pick_in_round) exactly when the
\* string splits on '.' into exactly two parts that both convert to integers,
\* and these are the two integers; for every other string it returns
\* (None, None).  '2.10' gives (2, 10); 'abc', '1.2.3' and '2.' fail.
C7_PickNumber ==
    PickCallReturned =>
        LET s == call.arg
            two == Cardinality(Dots(s)) = 1
            left == SubSeq(s, 1, Min(Dots(s)) - 1)
            right == SubSeq(s, Min(Dots(s)) + 1, Len(s))
        IN  /\ ~call.ret.none <=> (two /\ Convertible(left) /\ Convertible(right))
            /\ ~call.ret.none =>
                  /\ call.ret.round_num = DigitsValue(left)
                  /\ call.ret.pick_in_round = DigitsValue(right)
            /\ s = <<"2", ".", "1", "0">> =>
                  call.ret = [none |-> FALSE, round_num |-> 2, pick_in_round |-> 10]
            /\ s \in {<<"a", "a", "a">>, <<"1", ".", "2", ".", "1">>, <<"2", ".">>} =>
                  call.ret = NoPickNumber

\* '2.10' parsed to (2, 10)
C7_Witness ==
    /\ PickCallReturned
    /\ call.arg = <<"2", ".", "1", "0">>
    /\ call.ret = [none |-> FALSE, round_num |-> 2, pick_in_round |-> 10]

\* ------------------------------------------------------------------------
\* Properties of the import
\* ------------------------------------------------------------------------

\* the row the loop is about to process, and its cells as the loop reads them
InLoop == pc = "rows" /\ index < Len(df.rows)

RowYear(i) == cell_int(df.dtypes["year"], df.rows[i].year)
RowOverall(i) == cell_int(df.dtypes["overall_pick"], df.rows[i].overall_pick)
RowPickNumber(i) == cell_str(df.dtypes["pick_number"], df.rows[i].pick_number)
RowTeamName(i) == cell_str(df.dtypes["team_name"], df.rows[i].team_name)
RowPickText(i) == cell_str(df.dtypes["player_string"], df.rows[i].player_string)

\* the pick text is one of the non-pick sentinels
IsSentinel(i) ==
    lower(strip(RowPickText(i))) \in
        { <<"n", "o", " ", "p", "i", "c", "k", " ", "m", "a", "d", "e">>,
          <<"n", "o", " ", "p", "i", "c", "k">>,
          <<"t", "i", "m", "e", "r">> }

RowPlayer(i) == parse_player_string(RowPickText(i))
RowPick(i) == parse_pick_number(RowPickNumber(i))

\* C1: after import_csv_data has run a second time on the same CSV file,
\* teams, players, drafts and draft_picks have the row counts they had after
\* the first run, in the connection and in the committed database.
C1_RerunKeepsRowCounts ==
    (pc = "done" /\ rerun) =>
        /\ RowCounts(Tables) = RowCounts(before)
        /\ RowCounts(committed) = RowCounts(before)

\* a second run over a CSV of two picks has finished
C1_Witness ==
    /\ pc = "done"
    /\ rerun
    /\ imported_count = 2
    /\ Cardinality(draft_picks) = 2
    /\ Cardinality(players) = 2

\* no two rows of a table share the table's natural key
NaturalKeysUnique(T) ==
    /\ \A a, b \in T.draft_picks :
          (a.draft_id = b.draft_id /\ a.overall_pick = b.overall_pick) => a = b
    /\ \A a, b \in T.teams : a.team_name = b.team_name => a = b
    /\ \A a, b \in T.players :
          SamePlayer(a, b.first_name, b.last_name, b.nfl_team, b.position) => a = b
    /\ \A a, b \in T.drafts :
          (a.year = b.year /\ a.league_name = b.league_name) => a = b

\* C2: in every reachable state no two draft_picks share (draft_id,
\* overall_pick), no two teams share team_name, no two players share
\* (first_name, last_name, nfl_team, position), no two drafts share (year,
\* league_name).
C2_NaturalKeysUnique == NaturalKeysUnique(Tables) /\ NaturalKeysUnique(committed)

\* two rows with the same year, overall pick and team were imported into one
\* pick, one draft, one team
C2_Witness ==
    /\ pc = "done"
    /\ imported_count = 2
    /\ Cardinality(draft_picks) = 1
    /\ Cardinality(teams) = 1
    /\ Cardinality(drafts) = 1
    /\ Cardinality(players) = 1

\* every pick of T names exactly one draft, one team and one player of T
ReferencesResolve(T) ==
    \A p \in T.draft_picks :
        /\ Cardinality({d \in T.drafts : d.draft_id = p.draft_id}) = 1
        /\ Cardinality({m \in T.teams : m.team_id = p.team_id}) = 1
        /\ Cardinality({y \in T.players : y.player_id = p.player_id}) = 1

\* C3: in every reachable state every draft_picks row's draft_id, team_id
\* and player_id each identify exactly one row of drafts, teams and players.
C3_ReferencesResolve == ReferencesResolve(Tables) /\ ReferencesResolve(committed)

\* two picks of one team and one player in two drafts: the second pick's
\* team_id and player_id come from the lookup after an ignored insert
C3_Witness ==
    /\ pc = "done"
    /\ Cardinality(draft_picks) = 2
    /\ Cardinality(drafts) = 2
    /\ Cardinality(teams) = 1
    /\ Cardinality(players) = 1
    /\ \A p \in draft_picks : \E m \in teams : m.team_id = p.team_id

\* C4 as stated: a row whose pick text is a sentinel, whatever its other
\* fields hold, adds no row to any table, adds one to the skipped counter and
\* leaves the error counter as it is.
C4_SentinelAlwaysSkipped ==
    [][(InLoop /\ IsSentinel(index + 1)) =>
          /\ Tables' = Tables
          /\ skipped_count' = skipped_count + 1
          /\ error_count' = error_count]_vars

\* the row fails pick-text parsing or pick-number parsing, or its year or
\* overall pick does not convert to an integer
RowFails(i) ==
    \/ ~RowPlayer(i).parsed
    \/ RowPick(i).none
    \/ ~RowYear(i).ok
    \/ ~RowOverall(i).ok

\* what C8 says of a failing row
CountedAsError ==
    /\ Tables' = Tables
    /\ error_count' = error_count + 1
    /\ imported_count' = imported_count
    /\ skipped_count' = skipped_count

\* C8 (as amended): a row whose pick text is not a sentinel and that fails
\* pick-text parsing or pick-number parsing, or whose year or overall pick
\* does not convert to an integer, leaves the four tables unchanged and adds
\* exactly one to the error counter, none to the other two counters.
C8_FailingRowIsError ==
    [][(InLoop /\ ~IsSentinel(index + 1) /\ RowFails(index + 1)) => CountedAsError]_vars

\* C8 as stated: the same of every failing row, a sentinel or not
C8_AsStated ==
    [][(InLoop /\ RowFails(index + 1)) => CountedAsError]_vars

\* the loop has counted a row with a malformed pick number and a row with
\* a malformed overall pick as errors
C8_Witness ==
    /\ pc = "rows"
    /\ index = 2
    /\ ~IsSentinel(1) /\ RowPlayer(1).parsed /\ RowPick(1).none
    /\ ~IsSentinel(2) /\ ~RowOverall(2).ok
    /\ error_count = 2
    /\ imported_count = 0
    /\ skipped_count = 0
    /\ Tables = before

\* a valid row: it converts, is no sentinel, and parses to a round that
\* is not zero
ValidRow(i) ==
    /\ RowYear(i).ok
    /\ RowOverall(i).ok
    /\ ~IsSentinel(i)
    /\ RowPlayer(i).parsed
    /\ ~RowPick(i).none
    /\ RowPick(i).round_num # 0

\* the pick p of T has the key of row i: its draft's year and overall pick
HasKeyOfRow(T, p, i) ==
    /\ p.overall_pick = RowOverall(i).val
    /\ \E d \in T.drafts :
          d.draft_id = p.draft_id /\ d.year = RowYear(i).val /\ d.league_name = LeagueName

\* the pick p of T is row i: key, team, player, round, pick and status
IsRow(T, p, i) ==
    /\ HasKeyOfRow(T, p, i)
    /\ p.round_number = RowPick(i).round_num
    /\ p.pick_in_round = RowPick(i).pick_in_round
    /\ p.player_status = RowPlayer(i).status
    /\ \E m \in T.teams : m.team_id = p.team_id /\ m.team_name = RowTeamName(i)
    /\ \E y \in T.players :
          /\ y.player_id = p.player_id
          /\ SamePlayer(y, RowPlayer(i).first_name, RowPlayer(i).last_name,
                        RowPlayer(i).nfl_team, RowPlayer(i).position)

\* the key of row i is new: no pick of the database before the import and
\* no earlier valid row of the CSV has it
KeyIsNew(i) ==
    /\ \A p \in before.draft_picks : ~HasKeyOfRow(before, p, i)
    /\ \A j \in 1..(i - 1) :
          ValidRow(j) =>
              ~(RowYear(j).val = RowYear(i).val /\ RowOverall(j).val = RowOverall(i).val)

\* C9 (as amended): a row-level failure never aborts the batch and never
\* undoes earlier work: after import_csv_data returns, the committed
\* draft_picks holds a pick with the (draft, overall_pick) key of every valid
\* row, before or after an errored row, and that pick is the row itself
\* whenever the row's key was new.
C9_ValidRowsPresent ==
    pc = "done" =>
        \A i \in 1..Len(df.rows) :
            ValidRow(i) =>
                /\ \E p \in committed.draft_picks : HasKeyOfRow(committed, p, i)
                /\ KeyIsNew(i) => \E p \in committed.draft_picks : IsRow(committed, p, i)

\* C9 as stated: every valid row is itself in draft_picks after the import
C9_AsStated ==
    pc = "done" =>
        \A i \in 1..Len(df.rows) :
            ValidRow(i) => \E p \in committed.draft_picks : IsRow(committed, p, i)

\* an errored row, then a valid row that is in the committed draft_picks
C9_Witness ==
    /\ pc = "done"
    /\ Len(df.rows) = 2
    /\ ~IsSentinel(1) /\ RowFails(1)
    /\ ValidRow(2)
    /\ error_count = 1
    /\ imported_count = 1
    /\ \E p \in committed.draft_picks : IsRow(committed, p, 2)

\* C10: across create_tables and import_csv_data calls no row of teams,
\* players, drafts or draft_picks is deleted or changed, so no row count
\* decreases.
C10_AppendOnly ==
    [][/\ teams \subseteq teams'
       /\ players \subseteq players'
       /\ drafts \subseteq drafts'
       /\ draft_picks \subseteq draft_picks'
       /\ committed.teams \subseteq committed'.teams
       /\ committed.players \subseteq committed'.players
       /\ committed.drafts \subseteq committed'.drafts
       /\ committed.draft_picks \subseteq committed'.draft_picks]_vars

\* an import over a database that holds picks already met a pick whose key
\* was taken, and the tables only grew
C10_Witness ==
    /\ pc = "done"
    /\ before.draft_picks # {}
    /\ before.draft_picks \subseteq draft_picks
    /\ before.draft_picks # draft_picks
    /\ imported_count > Cardinality(draft_picks) - Cardinality(before.draft_picks)

\* ------------------------------------------------------------------------
\* main without its CSV file
\* ------------------------------------------------------------------------

\* a run of main whose CSV file is not there
RunWithoutCsv == pc # "idle" /\ ~csv_exists

\* C12: when the input CSV file does not exist, the run of main makes no
\* write to the database: no step of it creates a table, inserts a row or
\* changes what is committed
C12_NoWriteWithoutCsv ==
    [][RunWithoutCsv =>
          /\ tables_created' = tables_created
          /\ committed' = committed
          /\ UNCHANGED db_vars]_vars

\* ------------------------------------------------------------------------
\* Two import runs on one database file, statement by statement
\* ------------------------------------------------------------------------

\* the connections: each run of main opens its own with sqlite3.connect
Conns == {1, 2}

\* the data rows of the CSV files of concurrent runs: two picks of one
\* player, in two drafts, by two teams
ConcurrentRows ==
    { Row(Y2024, <<"1", ".", "0", "1">>, <<"1">>, Alpha, TextLamb),
      Row(Y2025, <<"1", ".", "0", "2">>, <<"2">>, Bravo, TextLamb) }

ConcurrentCsvFiles == SeqsUpTo(ConcurrentRows, MaxRows) \ {<<>>}

\* the database file as a connection outside a transaction reads it
DatabaseFile ==
    [teams |-> committed.teams, players |-> committed.players,
     drafts |-> committed.drafts, draft_picks |-> committed.draft_picks,
     seq |-> sqlite_sequence]

\* what a statement of connection c works on: its transaction when it has
\* one, the file otherwise
view(c) == IF conns[c].in_transaction THEN conns[c].db ELSE DatabaseFile

\* SQLite lets one connection write at a time: from its first INSERT to its
\* commit a connection holds the write lock of the file
database_is_locked(c) == \E o \in Conns \ {c} : conns[o].in_transaction

\* the locals of the loop body before the first statement: the cells
\* converted, the non-pick test, the two parsers
prepare_row(dtypes, row) ==
    LET year == cell_int(dtypes["year"], row.year)
        pick_number == cell_str(dtypes["pick_number"], row.pick_number)
        overall_pick == cell_int(dtypes["overall_pick"], row.overall_pick)
        team_name == cell_str(dtypes["team_name"], row.team_name)
        player_string == cell_str(dtypes["player_string"], row.player_string)
        player_info == parse_player_string(player_string)
        pick == parse_pick_number(pick_number)
        outcome == IF ~year.ok \/ ~overall_pick.ok THEN "error"
                   ELSE IF is_no_pick(player_string) THEN "skipped"
                   ELSE IF ~player_info.parsed THEN "error"
                   ELSE IF not_round_num(pick) THEN "error"
                   ELSE "insert"
    IN  [outcome |-> outcome, year |-> year.val, team_name |-> team_name,
         player_info |-> player_info, pick |-> pick,
         overall_pick |-> overall_pick.val,
         draft_id |-> 0, team_id |-> 0, player_id |-> 0]

NoLocals == [outcome |-> "none"]

\* a slip: the id of the newest team in place of the lookup by name
select_team_id_newest(D, team_name) == [ok |-> TRUE, id |-> D.seq.teams]

\* SELECT team_id FROM teams WHERE team_name = ?, and fetchone()[0]
select_team_id(D, team_name) ==
    fetchone({r.team_id : r \in {x \in D.teams : x.team_name = team_name}})

\* SELECT player_id FROM players WHERE the four columns match
select_player_id(D, first_name, last_name, nfl_team, position) ==
    fetchone({r.player_id : r \in
        {x \in D.players : SamePlayer(x, first_name, last_name, nfl_team, position)}})

\* SELECT draft_id FROM drafts WHERE year = ? AND league_name = ?
select_draft_id(D, year, league_name) ==
    fetchone({r.draft_id : r \in
        {x \in D.drafts : x.year = year /\ x.league_name = league_name}})

\* the INSERT statements of the loop body, in the order they run; each is
\* followed by its SELECT, the INSERT of the pick by the next row
InsertSteps == {"draft_insert", "team_insert", "player_insert", "pick_insert"}
SelectSteps == {"draft_select", "team_select", "player_select"}

\* the statement at step st of a row with locals a, on database D
execute_insert(D, st, a) ==
    CASE st = "draft_insert" -> insert_or_ignore_draft(D, a.year, LeagueName)
      [] st = "team_insert" -> insert_or_ignore_team(D, a.team_name)
      [] st = "player_insert" ->
             insert_or_ignore_player(D, a.player_info.first_name,
                                     a.player_info.last_name,
                                     a.player_info.nfl_team,
                                     a.player_info.position)
      [] st = "pick_insert" ->
             insert_or_ignore_pick(D, a.draft_id, a.team_id, a.player_id,
                                   a.pick.round_num, a.pick.pick_in_round,
                                   a.overall_pick, a.player_info.status)

execute_select(D, st, a) ==
    CASE st = "draft_select" -> select_draft_id(D, a.year, LeagueName)
      [] st = "team_select" -> select_team_id(D, a.team_name)
      [] st = "player_select" ->
             select_player_id(D, a.player_info.first_name,
                              a.player_info.last_name, a.player_info.nfl_team,
                              a.player_info.position)

\* the natural key a SELECT looks up
lookup_key(st, a) ==
    CASE st = "draft_select" -> <<"drafts", a.year, LeagueName>>
      [] st = "team_select" -> <<"teams", a.team_name>>
      [] st = "player_select" ->
             <<"players", a.player_info.first_name, a.player_info.last_name,
               a.player_info.nfl_team, a.player_info.position>>

\* the statement after statement st of the same row
next_step(st) ==
    CASE st = "draft_insert" -> "draft_select"
      [] st = "draft_select" -> "team_insert"
      [] st = "team_insert" -> "team_select"
      [] st = "team_select" -> "player_insert"
      [] st = "player_insert" -> "player_select"
      [] st = "player_select" -> "pick_insert"

\* a connection that has no transaction holds no rows of its own
NoTransaction ==
    [teams |-> {}, players |-> {}, drafts |-> {}, draft_picks |-> {},
     seq |-> [teams |-> 0, players |-> 0, drafts |-> 0, draft_picks |-> 0]]

\* a run of main that has connected and created the tables
Connected ==
    [pc |-> "start", df |-> read_csv(<<>>), index |-> 0,
     in_transaction |-> FALSE, db |-> NoTransaction, locals |-> NoLocals,
     obtained |-> {}, missed |-> FALSE,
     imported_count |-> 0, error_count |-> 0, skipped_count |-> 0]

InitConcurrent ==
    /\ tables_created = TRUE
    /\ teams = {}
    /\ players = {}
    /\ drafts = {}
    /\ draft_picks = {}
    /\ sqlite_sequence = [teams |-> 0, players |-> 0, drafts |-> 0, draft_picks |-> 0]
    /\ committed = NoTables
    /\ pc = "idle"
    /\ df = read_csv(<<>>)
    /\ index = 0
    /\ imported_count = 0
    /\ error_count = 0
    /\ skipped_count = 0
    /\ rerun = FALSE
    /\ before = NoTables
    /\ csv_exists = TRUE
    /\ call = NoCall
    /\ conns = [c \in Conns |-> Connected]

\* what the steps of a connection leave alone
single_vars ==
    <<tables_created, teams, players, drafts, draft_picks, pc, df, index,
      imported_count, error_count, skipped_count, rerun, before, csv_exists,
      call>>

\* the row is over: on to the next one, with counter n one higher
end_row(r, n) ==
    [r EXCEPT !.pc = "row", !.index = @ + 1, !.locals = NoLocals,
              !.imported_count = @ + (IF n = "imported" THEN 1 ELSE 0),
              !.skipped_count = @ + (IF n = "skipped" THEN 1 ELSE 0),
              !.error_count = @ + (IF n = "error" THEN 1 ELSE 0)]

\* import_csv_data up to the loop
conn_begin(c) ==
    /\ conns[c].pc = "start"
    /\ \E csv_file \in ConcurrentCsvFiles :
           conns' = [conns EXCEPT ![c].df = read_csv(csv_file), ![c].pc = "row"]
    /\ UNCHANGED <<single_vars, committed, sqlite_sequence>>

\* the loop body of a row up to its first statement
conn_row(c) ==
    /\ conns[c].pc = "row"
    /\ conns[c].index < Len(conns[c].df.rows)
    /\ \E a \in {prepare_row(conns[c].df.dtypes,
                             conns[c].df.rows[conns[c].index + 1])} :
           conns' = [conns EXCEPT ![c] =
                        IF a.outcome = "insert"
                        THEN [@ EXCEPT !.pc = "draft_insert", !.locals = a]
                        ELSE end_row(@, a.outcome)]
    /\ UNCHANGED <<single_vars, committed, sqlite_sequence>>

\* an INSERT OR IGNORE; the first one of a run begins its transaction
conn_insert(c) ==
    /\ conns[c].pc \in InsertSteps
    /\ ~database_is_locked(c)
    /\ LET r == conns[c]
           D == execute_insert(view(c), r.pc, r.locals)
           written == [r EXCEPT !.in_transaction = TRUE, !.db = D]
       IN  conns' = [conns EXCEPT ![c] =
                        IF r.pc = "pick_insert"
                        THEN end_row(written, "imported")
                        ELSE [written EXCEPT !.pc = next_step(r.pc)]]
    /\ UNCHANGED <<single_vars, committed, sqlite_sequence>>

\* an INSERT while the other connection holds the write lock: after the
\* timeout of the connection sqlite3 raises OperationalError, which the
\* except clause of the loop counts as an error of the row
conn_busy(c) ==
    /\ conns[c].pc \in InsertSteps
    /\ database_is_locked(c)
    /\ conns' = [conns EXCEPT ![c] = end_row(@, "error")]
    /\ UNCHANGED <<single_vars, committed, sqlite_sequence>>

\* the SELECT after an INSERT OR IGNORE, and fetchone()[0]
conn_select(c) ==
    /\ conns[c].pc \in SelectSteps
    /\ LET r == conns[c]
           got == execute_select(view(c), r.pc, r.locals)
           id_of == CASE r.pc = "draft_select" -> "draft_id"
                      [] r.pc = "team_select" -> "team_id"
                      [] r.pc = "player_select" -> "player_id"
       IN  conns' = [conns EXCEPT ![c] =
                        IF got.ok
                        THEN [r EXCEPT !.pc = next_step(r.pc),
                                       !.locals[id_of] = got.id,
                                       !.obtained = @ \cup
                                           {<<lookup_key(r.pc, r.locals), got.id>>}]
                        ELSE [end_row(r, "error") EXCEPT !.missed = TRUE]]
    /\ UNCHANGED <<single_vars, committed, sqlite_sequence>>

\* the loop is over: self.conn.commit() and return
conn_commit(c) ==
    /\ conns[c].pc = "row"
    /\ conns[c].index >= Len(conns[c].df.rows)
    /\ committed' = IF conns[c].in_transaction
                    THEN [teams |-> conns[c].db.teams,
                          players |-> conns[c].db.players,
                          drafts |-> conns[c].db.drafts,
                          draft_picks |-> conns[c].db.draft_picks]
                    ELSE committed
    /\ sqlite_sequence' = IF conns[c].in_transaction
                          THEN conns[c].db.seq
                          ELSE sqlite_sequence
    /\ conns' = [conns EXCEPT ![c].pc = "done", ![c].in_transaction = FALSE,
                              ![c].db = NoTransaction]
    /\ UNCHANGED single_vars

NextConcurrent ==
    \E c \in Conns :
        \/ conn_begin(c)
        \/ conn_row(c)
        \/ conn_insert(c)
        \/ conn_busy(c)
        \/ conn_select(c)
        \/ conn_commit(c)

SpecConcurrent == InitConcurrent /\ [][NextConcurrent]_vars

\* the tables of a database value
TablesOf(D) ==
    [teams |-> D.teams, players |-> D.players, drafts |-> D.drafts,
     draft_picks |-> D.draft_picks]

\* C11: in every interleaving of the statements of two import runs on one
\* database, every lookup after an insert-or-ignore finds a row, the two
\* runs obtain the same id for the same natural key, and no table holds two
\* rows with the same natural key, in the file or in a transaction
C11_RunsConverge ==
    /\ \A c \in Conns : ~conns[c].missed
    /\ \A c, o \in Conns :
          \A x \in conns[c].obtained, y \in conns[o].obtained :
              x[1] = y[1] => x[2] = y[2]
    /\ NaturalKeysUnique(committed)
    /\ \A c \in Conns : NaturalKeysUnique(TablesOf(view(c)))

\* both runs have committed picks, and both looked up the same team, the
\* second run after its insert of that team was ignored
C11_Witness ==
    /\ \A c \in Conns : conns[c].pc = "done" /\ conns[c].imported_count >= 1
    /\ \E x \in conns[1].obtained, y \in conns[2].obtained :
          x[1] = y[1] /\ x[1][1] = "teams"
    /\ Cardinality(committed.teams) = 2

\* ------------------------------------------------------------------------
\* cleanup_csv.py: text files, csv.reader and csv.writer
\* ------------------------------------------------------------------------

\* the line separator of the platform, which a file opened for writing
\* without newline='' puts in place of every "\n"
os_linesep == <<"\n">>

\* f.read() of a file opened with open(path, 'r'): universal newlines, so
\* "\r\n" and "\r" are read as "\n"
RECURSIVE read_text(_)
read_text(content) ==
    IF content = <<>> THEN <<>>
    ELSE IF Head(content) = "\r"
    THEN IF Len(content) >= 2 /\ content[2] = "\n"
         THEN <<"\n">> \o read_text(SubSeq(content, 3, Len(content)))
         ELSE <<"\n">> \o read_text(Tail(content))
    ELSE <<Head(content)>> \o read_text(Tail(content))

\* f.write(s) on a file opened with open(path, 'w'): the content of the file
RECURSIVE write_text(_)
write_text(s) ==
    IF s = <<>> THEN <<>>
    ELSE (IF Head(s) = "\n" THEN os_linesep ELSE <<Head(s)>>) \o write_text(Tail(s))

\* the state of csv.reader between two characters
ReaderStart == [state |-> "START_RECORD", field |-> <<>>, fields |-> <<>>, rows |-> <<>>]

parse_save_field(P) == [P EXCEPT !.fields = Append(@, P.field), !.field = <<>>]

parse_add_char(P, c) == [P EXCEPT !.field = Append(@, c)]

\* parse_process_char of the excel dialect: delimiter ',', quotechar '"',
\* doublequote, not strict; c is a character or "EOL", the end of a line
parse_process_char(P, c) ==
    LET newline == c \in {"\n", "\r"}
        after_newline == IF c = "EOL" THEN "START_RECORD" ELSE "EAT_CRNL"
        start_field ==
            IF newline \/ c = "EOL"
            THEN [parse_save_field(P) EXCEPT !.state = after_newline]
            ELSE IF c = "\"" THEN [P EXCEPT !.state = "IN_QUOTED_FIELD"]
            ELSE IF c = "," THEN [parse_save_field(P) EXCEPT !.state = "START_FIELD"]
            ELSE [parse_add_char(P, c) EXCEPT !.state = "IN_FIELD"]
    IN  CASE P.state = "START_RECORD" ->
                 IF c = "EOL" THEN P
                 ELSE IF newline THEN [P EXCEPT !.state = "EAT_CRNL"]
                 ELSE start_field
          [] P.state = "START_FIELD" -> start_field
          [] P.state = "IN_FIELD" ->
                 IF newline \/ c = "EOL"
                 THEN [parse_save_field(P) EXCEPT !.state = after_newline]
                 ELSE IF c = ","
                 THEN [parse_save_field(P) EXCEPT !.state = "START_FIELD"]
                 ELSE parse_add_char(P, c)
          [] P.state = "IN_QUOTED_FIELD" ->
                 IF c = "EOL" THEN P
                 ELSE IF c = "\"" THEN [P EXCEPT !.state = "QUOTE_IN_QUOTED_FIELD"]
                 ELSE parse_add_char(P, c)
          [] P.state = "QUOTE_IN_QUOTED_FIELD" ->
                 IF c = "\""
                 THEN [parse_add_char(P, c) EXCEPT !.state = "IN_QUOTED_FIELD"]
                 ELSE IF c = ","
                 THEN [parse_save_field(P) EXCEPT !.state = "START_FIELD"]
                 ELSE IF newline \/ c = "EOL"
                 THEN [parse_save_field(P) EXCEPT !.state = after_newline]
                 ELSE [parse_add_char(P, c) EXCEPT !.state = "IN_FIELD"]
          [] P.state = "EAT_CRNL" ->
                 IF c = "EOL" THEN [P EXCEPT !.state = "START_RECORD"] ELSE P

\* the end of a line of the file: "EOL", and the record is returned when the
\* reader is back at START_RECORD
end_of_line(P) ==
    LET Q == parse_process_char(P, "EOL")
    IN  IF Q.state = "START_RECORD"
        THEN [Q EXCEPT !.rows = Append(@, Q.fields), !.fields = <<>>]
        ELSE Q

\* the end of the input inside a record: the field is saved and the record
\* returned when a field has characters or a quoted field is open
end_of_input(P) ==
    IF P.state # "START_RECORD" /\ (P.field # <<>> \/ P.state = "IN_QUOTED_FIELD")
    THEN Append(P.rows, parse_save_field(P).fields)
    ELSE P.rows

\* list(csv.reader(infile)) for the text of infile, which holds no "\r":
\* the lines of the text end after every "\n"
RECURSIVE reader_rows(_, _)
reader_rows(text, P) ==
    IF text = <<>> THEN end_of_input(P)
    ELSE LET Q == parse_process_char(P, Head(text))
         IN  IF Head(text) = "\n" \/ Len(text) = 1
             THEN reader_rows(Tail(text), end_of_line(Q))
             ELSE reader_rows(Tail(text), Q)

csv_reader(text) == reader_rows(text, ReaderStart)

\* a field as csv.writer writes it (QUOTE_MINIMAL): in quotes, with every
\* quote doubled, when it holds the delimiter, a quote, "\r" or "\n"
RECURSIVE double_quotes(_)
double_quotes(field) ==
    IF field = <<>> THEN <<>>
    ELSE (IF Head(field) = "\"" THEN <<"\"", "\"">> ELSE <<Head(field)>>)
             \o double_quotes(Tail(field))

write_field(field, only_field) ==
    IF (\E k \in 1..Len(field) : field[k] \in {",", "\"", "\r", "\n"})
          \/ (only_field /\ field = <<>>)
    THEN <<"\"">> \o double_quotes(field) \o <<"\"">>
    ELSE field

\* writer.writerow(row): the fields with commas between them and "\r\n"
writerow(row) ==
    join([k \in 1..Len(row) |-> write_field(row[k], Len(row) = 1)], <<",">>)
        \o <<"\r", "\n">>

\* the characters clean_csv_file replaces
NonBreakingSpace == "U+00A0"

unicode_whitespace ==
    <<"U+2009", "U+2002", "U+2003", "U+2004", "U+2005", "U+2006", "U+2007",
      "U+2008", "U+200A", "U+200B">>

\* s.replace(old, new) for a character old
replace(s, old, new) == [k \in 1..Len(s) |-> IF s[k] = old THEN new ELSE s[k]]

\* s.count(c) for a character c
count(s, c) == Cardinality({k \in 1..Len(s) : s[k] = c})

\* a slip: the loop over unicode_whitespace left out
replace_unicode_whitespace_not(cell, k) == cell

\* the loop over unicode_whitespace, from its k-th character on
RECURSIVE replace_unicode_whitespace(_, _)
replace_unicode_whitespace(cell, k) ==
    IF k > Len(unicode_whitespace) THEN cell
    ELSE replace_unicode_whitespace(replace(cell, unicode_whitespace[k], " "), k + 1)

\* a slip: the pattern ' ' in place of ' +'
collapse_spaces_one(s) == s

\* re.sub(r' +', ' ', s)
RECURSIVE collapse_spaces(_)
collapse_spaces(s) ==
    IF s = <<>> THEN <<>>
    ELSE IF Head(s) = " "
    THEN <<" ">> \o collapse_spaces(lstrip(s, {" "}))
    ELSE <<Head(s)>> \o collapse_spaces(Tail(s))

\* the body of "for cell in row"
clean_cell(cell) ==
    strip(collapse_spaces(
        replace_unicode_whitespace(replace(cell, NonBreakingSpace, " "), 1)))

clean_row(row) == [k \in 1..Len(row) |-> clean_cell(row[k])]

\* count_nonstandard of verify_cleaning, on the text of a file
RECURSIVE count_unicode_whitespace(_, _)
count_unicode_whitespace(content, k) ==
    IF k > Len(unicode_whitespace) THEN 0
    ELSE count(content, unicode_whitespace[k]) + count_unicode_whitespace(content, k + 1)

count_nonstandard(content) ==
    count(content, NonBreakingSpace) + count_unicode_whitespace(content, 1)

\* total_special of find_nonstandard_characters: the characters of the
\* lines of the file that are in the list of line 46
special_chars(text) ==
    Cardinality({k \in 1..Len(text) :
        text[k] \in {"U+00A0", "U+2009", "U+2002", "U+2003", "U+2004", "U+2005",
                     "U+2006", "U+2007", "U+2008", "U+200A", "U+200B"}})

\* ord(char) > 127: the characters of the model beyond ASCII
unicode_chars == UnicodeSpaces \cup {"U+200B"}

\* the characters of the model that are not in standard_ascii, the set of
\* chr(32) .. chr(126): the ASCII control characters and those beyond ASCII
not_standard_ascii == {"\t", "\n", "\r"} \cup unicode_chars

\* total_nonstandard of find_nonstandard_characters: every line is looked at
\* character by character, its "\n" included; the characters that are not in
\* standard_ascii and have a code up to 127
nonstandard_chars(text) ==
    Cardinality({k \in 1..Len(text) :
        text[k] \in not_standard_ascii /\ text[k] \notin unicode_chars})

\* total_unicode: the characters with a code over 127
total_unicode(text) ==
    Cardinality({k \in 1..Len(text) : text[k] \in unicode_chars})

\* ------------------------------------------------------------------------
\* clean_csv_file, verify_cleaning and find_nonstandard_characters on files
\* drawn from bounded sets
\* ------------------------------------------------------------------------

\* characters of the free file contents
FileAlphabet == {"a", " ", "U+00A0", ",", "\"", "\n", "\r"}

\* cells of the composed files: the tracked spaces inside and at the ends
\* of a cell, runs of spaces, a line break, whitespace that is not tracked
CleanCells ==
    { <<"a", "U+00A0", "b">>,
      <<" ", "a", " ", " ", "b", " ">>,
      <<"U+2009", "a", "U+200B">>,
      <<"a", "U+200B", "U+2003", "b">>,
      <<"a", "\n", "b">>,
      <<"\t", "a", "U+3000">>,
      <<"a", "U+3000", " ", "b">>,
      <<>> }

\* a file of one line: one or two cells in quotes, ended by "\n" or "\r\n"
ComposedFiles ==
    { join([k \in 1..Len(row) |-> <<"\"">> \o row[k] \o <<"\"">>], <<",">>) \o ending :
        row \in SeqsUpTo(CleanCells, 2) \ {<<>>},
        ending \in {<<"\n">>, <<"\r", "\n">>} }

InputFiles == SeqsUpTo(FileAlphabet, MaxFileLen) \cup ComposedFiles

\* a path without a file
NoFile == [exists |-> FALSE]

CleanCalls ==
    { [fn |-> "clean_csv_file",
       input_file |-> content,
       backup |-> backup,
       step |-> "called",
       backup_file |-> NoFile,
       output_file |-> NoFile,
       reader |-> <<>>,
       cleaned_rows |-> <<>>,
       cleaned_count |-> 0,
       total_special |-> 0,
       total_nonstandard |-> 0,
       total_unicode |-> 0,
       none_found |-> FALSE] :
        content \in InputFiles, backup \in BOOLEAN }

InitClean == InitImport /\ call \in CleanCalls

\* lines 20-25: the backup, read and written as text, and both files closed
clean_csv_file_backup ==
    /\ call.fn = "clean_csv_file"
    /\ call.step = "called"
    /\ call.backup
    /\ call' = [call EXCEPT
                  !.backup_file = [exists |-> TRUE, open |-> FALSE,
                                   content |-> write_text(read_text(call.input_file))],
                  !.step = "backed_up"]
    /\ UNCHANGED import_vars

\* lines 38-42: the input opened for reading, the output for writing
clean_csv_file_open ==
    /\ call.fn = "clean_csv_file"
    /\ call.step = (IF call.backup THEN "backed_up" ELSE "called")
    /\ call' = [call EXCEPT
                  !.output_file = [exists |-> TRUE, open |-> TRUE, content |-> <<>>],
                  !.reader = csv_reader(read_text(call.input_file)),
                  !.step = "rows"]
    /\ UNCHANGED import_vars

\* lines 44-83: one row of the reader cleaned and written
clean_csv_file_writerow ==
    /\ call.fn = "clean_csv_file"
    /\ call.step = "rows"
    /\ call.reader # <<>>
    /\ LET cleaned_row == clean_row(Head(call.reader))
       IN  call' = [call EXCEPT
                      !.output_file.content = @ \o writerow(cleaned_row),
                      !.cleaned_rows = Append(@, cleaned_row),
                      !.reader = Tail(@)]
    /\ UNCHANGED import_vars

\* the end of the with block and the return
clean_csv_file_return ==
    /\ call.fn = "clean_csv_file"
    /\ call.step = "rows"
    /\ call.reader = <<>>
    /\ call' = [call EXCEPT !.output_file.open = FALSE, !.step = "returned"]
    /\ UNCHANGED import_vars

\* verify_cleaning(input_csv, output_file), as __main__ calls it
verify_cleaning ==
    /\ call.fn = "clean_csv_file"
    /\ call.step = "returned"
    /\ call' = [call EXCEPT
                  !.cleaned_count = count_nonstandard(read_text(call.output_file.content)),
                  !.step = "verified"]
    /\ UNCHANGED import_vars

\* find_nonstandard_characters on the cleaned file
find_nonstandard_characters ==
    /\ call.fn = "clean_csv_file"
    /\ call.step = "verified"
    /\ LET text == read_text(call.output_file.content)
       IN  call' = [call EXCEPT
                      !.total_special = special_chars(text),
                      !.total_nonstandard = nonstandard_chars(text),
                      !.total_unicode = total_unicode(text),
                      !.none_found = /\ nonstandard_chars(text) = 0
                                     /\ total_unicode(text) = 0
                                     /\ special_chars(text) = 0,
                      !.step = "diagnosed"]
    /\ UNCHANGED import_vars

NextClean ==
    \/ clean_csv_file_backup
    \/ clean_csv_file_open
    \/ clean_csv_file_writerow
    \/ clean_csv_file_return
    \/ verify_cleaning
    \/ find_nonstandard_characters

SpecClean == InitClean /\ [][NextClean]_vars

\* ------------------------------------------------------------------------
\* Properties of clean_csv_file
\* ------------------------------------------------------------------------

\* the tracked characters: the non-breaking space and U+2002 .. U+200B
TrackedCharacters ==
    {"U+00A0", "U+2002", "U+2003", "U+2004", "U+2005", "U+2006", "U+2007",
     "U+2008", "U+2009", "U+200A", "U+200B"}

TrackedIn(content) == {k \in 1..Len(content) : content[k] \in TrackedCharacters}

CleanCalled == call.fn = "clean_csv_file"

\* C13: the file clean_csv_file writes holds no tracked character, at any
\* moment of the writing; verify_cleaning finds a count of zero on it (and
\* returns True), and find_nonstandard_characters counts zero special
\* whitespace characters on it
C13_NoTrackedCharacterLeft ==
    (CleanCalled /\ call.output_file.exists) =>
        /\ TrackedIn(call.output_file.content) = {}
        /\ call.step \in {"verified", "diagnosed"} => call.cleaned_count = 0
        /\ call.step = "diagnosed" => call.total_special = 0

\* a file with a zero width space and an em space inside a cell was cleaned,
\* verified and diagnosed
C13_Witness ==
    /\ CleanCalled
    /\ call.step = "diagnosed"
    /\ Cardinality(TrackedIn(call.input_file)) = 2
    /\ call.cleaned_rows = << << <<"a", " ", "b">> >> >>
    /\ call.output_file.content = <<"a", " ", "b", "\r", "\n">>

\* the characters of t at the positions K, in order
RECURSIVE AtPositions(_, _)
AtPositions(t, K) ==
    IF K = {} THEN <<>>
    ELSE <<t[Min(K)]>> \o AtPositions(t, K \ {Min(K)})

\* the input cell with every tracked character replaced by a space, every
\* space that follows a space dropped, and the whitespace at both ends cut
ExpectedCell(cell) ==
    LET t == [k \in 1..Len(cell) |->
                 IF cell[k] \in TrackedCharacters THEN " " ELSE cell[k]]
        u == AtPositions(t, {k \in 1..Len(t) : ~(t[k] = " " /\ k > 1 /\ t[k - 1] = " ")})
        inner == {k \in 1..Len(u) : u[k] \notin Whitespace}
    IN  IF inner = {} THEN <<>> ELSE SubSeq(u, Min(inner), Max(inner))

\* no two adjacent regular spaces, no whitespace at either end
CellIsClean(cell) ==
    /\ \A k \in 1..(Len(cell) - 1) : ~(cell[k] = " " /\ cell[k + 1] = " ")
    /\ cell # <<>> => (cell[1] \notin Whitespace /\ cell[Len(cell)] \notin Whitespace)

\* C14: every cell clean_csv_file writes is the input cell with the tracked
\* characters replaced by spaces, runs of spaces collapsed and the ends
\* trimmed; no written cell has two adjacent spaces or whitespace at an end;
\* the cells read back from the cleaned file are the cells written, and
\* cleaning them again changes none
C14_CellsCleaned ==
    (CleanCalled /\ call.output_file.exists) =>
        LET input_rows == csv_reader(read_text(call.input_file))
            written == call.cleaned_rows
            read_back == csv_reader(read_text(call.output_file.content))
        IN  /\ Len(written) <= Len(input_rows)
            /\ \A r \in 1..Len(written) :
                  /\ Len(written[r]) = Len(input_rows[r])
                  /\ \A k \in 1..Len(written[r]) :
                        /\ written[r][k] = ExpectedCell(input_rows[r][k])
                        /\ CellIsClean(written[r][k])
            /\ call.step # "rows" =>
                  /\ Len(written) = Len(input_rows)
                  /\ read_back = written
                  /\ \A r \in 1..Len(read_back) : clean_row(read_back[r]) = read_back[r]

\* a cell with spaces at its ends and a run of two spaces inside was
\* written, with a second cell that holds a line break
C14_Witness ==
    /\ CleanCalled
    /\ call.step = "returned"
    /\ csv_reader(read_text(call.input_file)) =
           << << <<" ", "a", " ", " ", "b", " ">>, <<"a", "\n", "b">> >> >>
    /\ call.cleaned_rows = << << <<"a", " ", "b">>, <<"a", "\n", "b">> >> >>

\* C15: with backup enabled the backup file is written and closed before the
\* output file is opened, and holds the content of the input file; with
\* backup disabled there is no backup file
C15_BackupBeforeOutput ==
    CleanCalled =>
        /\ (call.backup /\ call.output_file.exists) =>
               (call.backup_file.exists /\ ~call.backup_file.open)
        /\ call.backup_file.exists => call.backup_file.content = call.input_file
        /\ ~call.backup => ~call.backup_file.exists

\* ------------------------------------------------------------------------
\* streamlit_app.py: the data of the dashboard
\* ------------------------------------------------------------------------

Y2023 == <<"2", "0", "2", "3">>

\* "Rush, Cee NYG QB"
TextRush ==
    <<"R", "u", "s", "h", ",", " ", "C", "e", "e", " ", "N", "Y", "G", " ", "Q", "B">>

\* the data rows of the CSV files the databases of the dashboard were
\* imported from: picks of three years, two positions, two teams, two rounds
DashboardRows ==
    << Row(Y2023, <<"1", ".", "0", "1">>, <<"1">>, Alpha, TextLamb),
       Row(Y2024, <<"2", ".", "0", "1">>, <<"2">>, Bravo, TextLamb),
       Row(Y2025, <<"1", ".", "0", "1">>, <<"1">>, Alpha, TextRush),
       Row(Y2025, <<"2", ".", "0", "1">>, <<"2">>, Bravo, TextRush) >>

\* the rows of DashboardRows at the positions K, in order
DashboardCsvFiles == {AtPositions(DashboardRows, K) : K \in SUBSET (1..Len(DashboardRows))}

\* import_csv_data on a new database: the loop body for every row from k on
RECURSIVE import_rows(_, _, _)
import_rows(D, frame, k) ==
    IF k > Len(frame.rows) THEN D
    ELSE import_rows(process_row(D, frame.dtypes, frame.rows[k]).db, frame, k + 1)

NewDatabase ==
    [teams |-> {}, players |-> {}, drafts |-> {}, draft_picks |-> {},
     seq |-> [teams |-> 0, players |-> 0, drafts |-> 0, draft_picks |-> 0]]

\* the databases database_setup.py leaves for the dashboard
DashboardDatabases ==
    {import_rows(NewDatabase, read_csv(csv_file), 1) : csv_file \in DashboardCsvFiles}

\* the rows the JOINs of load_draft_data make of the pick dp
joined_rows(T, dp) ==
    { [overall_pick |-> dp.overall_pick,
       round_number |-> dp.round_number,
       pick_in_round |-> dp.pick_in_round,
       year |-> d.year,
       team_name |-> t.team_name,
       first_name |-> p.first_name,
       last_name |-> p.last_name,
       nfl_team |-> p.nfl_team,
       position |-> p.position,
       player_status |-> dp.player_status] :
        d \in {x \in T.drafts : x.draft_id = dp.draft_id},
        t \in {x \in T.teams : x.team_id = dp.team_id},
        p \in {x \in T.players : x.player_id = dp.player_id} }

\* the query of load_draft_data: draft_picks joined with drafts, teams and
\* players; a row per pick (the order of the rows plays no part below)
load_draft_data(T) == UNION {joined_rows(T, dp) : dp \in T.draft_picks}

\* df[column].unique()
unique(data, column) == {r[column] : r \in data}

\* df[column].nunique()
nunique(data, column) == Cardinality(unique(data, column))

\* df[df[column].isin(selected)]
isin(data, column, selected) == {r \in data : r[column] \in selected}

\* a slip: the team selection not applied
filter_teams_not(data, selected_teams) == data

filter_teams(data, selected_teams) ==
    IF selected_teams # {} THEN isin(data, "team_name", selected_teams) ELSE data

\* lines 127-136 of main: a selection that is empty filters nothing
filter_data(data, selected_years, selected_positions, selected_teams) ==
    LET by_year == IF selected_years # {}
                   THEN isin(data, "year", selected_years) ELSE data
        by_position == IF selected_positions # {}
                       THEN isin(by_year, "position", selected_positions)
                       ELSE by_year
    IN  filter_teams(by_position, selected_teams)

\* series.value_counts().get(pos, 0)
value_counts(data, pos) == Cardinality({r \in data : r.position = pos})

\* round(n / d, 1), in tenths: the nearest tenth, the even one of two that
\* are equally near
round1(n, d) ==
    LET q == (10 * n) \div d
        r == (10 * n) % d
    IN  IF 2 * r < d THEN q
        ELSE IF 2 * r > d THEN q + 1
        ELSE IF q % 2 = 0 THEN q ELSE q + 1

\* a slip: >= in place of > in the rows that remain
data_after_from(data, column, cutoff) == {r \in data : r[column] >= cutoff}

\* df[df[column] <= cutoff] and df[df[column] > cutoff]
data_through(data, column, cutoff) == {r \in data : r[column] <= cutoff}
data_after(data, column, cutoff) == {r \in data : r[column] > cutoff}

\* the rows of scarcity_data, one per position of the data: averages per
\* year, rounded, when the data has more than one year, counts otherwise;
\* the numbers are in tenths
scarcity_data(data, column, cutoff) ==
    LET years_in_data == Cardinality(unique(data, "year"))
        through == data_through(data, column, cutoff)
        after == data_after(data, column, cutoff)
    IN  { LET taken == value_counts(through, pos)
              remaining == value_counts(after, pos)
              total == taken + remaining
          IN  IF years_in_data > 1
              THEN [Position |-> pos, averaged |-> TRUE,
                    Taken |-> round1(taken, years_in_data),
                    Remaining |-> round1(remaining, years_in_data),
                    Total |-> round1(total, years_in_data)]
              ELSE [Position |-> pos, averaged |-> FALSE,
                    Taken |-> 10 * taken,
                    Remaining |-> 10 * remaining,
                    Total |-> 10 * total] :
          pos \in unique(data, "position") }

All == <<"A", "l", "l">>

\* player_lookup_tab: the rows it lists (the search term is empty)
filtered_players(data, search_position) ==
    IF search_position # All
    THEN {r \in data : r.position = search_position}
    ELSE data

\* a tab that was not rendered
NotRendered == [rendered |-> FALSE]

NoViews ==
    [position |-> NotRendered, round |-> NotRendered, pick |-> NotRendered,
     team |-> NotRendered, lookup |-> NotRendered]

\* the five tabs of main, each with the rows it shows or counts
render_tabs(data, filtered_df, w) ==
    [position |-> [rendered |-> TRUE, data |-> filtered_df,
                   unique_players |-> nunique(filtered_df, "first_name")],
     round |-> [rendered |-> TRUE, data |-> filtered_df,
                scarcity |-> scarcity_data(filtered_df, "round_number", w.selected_round)],
     pick |-> [rendered |-> TRUE, data |-> filtered_df,
               scarcity |-> scarcity_data(filtered_df, "overall_pick", w.selected_pick)],
     team |-> [rendered |-> TRUE, data |-> filtered_df],
     lookup |-> [rendered |-> TRUE, data |-> filtered_players(data, w.search_position)]]

\* ------------------------------------------------------------------------
\* streamlit_app.py: main on databases and widget states from bounded sets
\* ------------------------------------------------------------------------

\* the widgets as they are before the user touches them
DefaultWidgets ==
    [selected_years |-> {}, selected_positions |-> {}, selected_teams |-> {},
     selected_round |-> 1, selected_pick |-> 1, search_position |-> All]

\* the three multiselects offer the years, positions and teams of the data
Selections(data) ==
    { [selected_years |-> sy, selected_positions |-> sp, selected_teams |-> st] :
        sy \in SUBSET unique(data, "year"),
        sp \in SUBSET unique(data, "position"),
        st \in SUBSET unique(data, "team_name") }

\* the round and pick selectboxes offer range(1, max + 1) of the filtered
\* data, the position selectbox of the lookup "All" and the positions
WidgetsOf(data, sel) ==
    LET filtered_df == filter_data(data, sel.selected_years,
                                   sel.selected_positions, sel.selected_teams)
    IN  { [selected_years |-> sel.selected_years,
           selected_positions |-> sel.selected_positions,
           selected_teams |-> sel.selected_teams,
           selected_round |-> sr,
           selected_pick |-> pk,
           search_position |-> pos] :
            sr \in (IF filtered_df = {} THEN {1}
                    ELSE 1..Max(unique(filtered_df, "round_number"))),
            pk \in (IF filtered_df = {} THEN {1}
                    ELSE 1..Max(unique(filtered_df, "overall_pick"))),
            pos \in {All} \cup unique(data, "position") }

Widgets(data) == UNION {WidgetsOf(data, sel) : sel \in Selections(data)}

MainCall(w, connect_fails) ==
    [fn |-> "main", connect_fails |-> connect_fails, widgets |-> w,
     returned |-> FALSE, outcome |-> "none", message |-> "none",
     views |-> NoViews]

\* a database file database_setup.py has left, or none, and a state of the
\* widgets that the data of that database allows
InitDashboard ==
    /\ pc = "idle"
    /\ df = read_csv(<<>>)
    /\ index = 0
    /\ imported_count = 0
    /\ error_count = 0
    /\ skipped_count = 0
    /\ rerun = FALSE
    /\ before = NoTables
    /\ csv_exists = FALSE
    /\ conns = NoConns
    /\ \E D \in DashboardDatabases :
          /\ teams = D.teams
          /\ players = D.players
          /\ drafts = D.drafts
          /\ draft_picks = D.draft_picks
          /\ sqlite_sequence = D.seq
          /\ committed = TablesOf(D)
          /\ \/ /\ tables_created = TRUE
                /\ call \in {MainCall(w, FALSE) : w \in Widgets(load_draft_data(D))}
                              \cup {MainCall(DefaultWidgets, TRUE)}
             \/ /\ tables_created = FALSE
                /\ D = NewDatabase
                /\ call = MainCall(DefaultWidgets, FALSE)

\* main of streamlit_app.py, one run of the script
streamlit_main ==
    /\ call.fn = "main"
    /\ ~call.returned
    /\ \E position_tab_rendered \in BOOLEAN :
          LET w == call.widgets
              data == load_draft_data(committed)
              filtered_df == filter_data(data, w.selected_years,
                                         w.selected_positions, w.selected_teams)
          IN  call' =
                IF call.connect_fails \/ ~tables_created
                THEN \* sqlite3.connect or pd.read_sql_query raises, and
                     \* nothing in main or under it catches
                     [call EXCEPT !.returned = TRUE, !.outcome = "exception"]
                ELSE IF data = {}
                THEN \* df.empty: st.error and return
                     [call EXCEPT !.returned = TRUE, !.outcome = "returned",
                                  !.message = "No draft data found! Please run database_setup.py first."]
                ELSE IF filtered_df = {}
                THEN \* no row passes the filter: range(1, max_round + 1) of
                     \* round_analysis_tab raises on the NaN of an empty
                     \* column, if position_analysis_tab did not raise before
                     [call EXCEPT !.returned = TRUE, !.outcome = "exception",
                                  !.views.position =
                                      IF position_tab_rendered
                                      THEN [rendered |-> TRUE, data |-> {},
                                            unique_players |-> 0]
                                      ELSE NotRendered]
                ELSE [call EXCEPT !.returned = TRUE, !.outcome = "returned",
                                  !.views = render_tabs(data, filtered_df, w)]
    /\ UNCHANGED import_vars

NextDashboard == streamlit_main

SpecDashboard == InitDashboard /\ [][NextDashboard]_vars

\* ------------------------------------------------------------------------
\* Properties of the dashboard
\* ------------------------------------------------------------------------

\* main has rendered its tabs
TabsRendered == call.fn = "main" /\ call.returned /\ call.outcome = "returned"
                    /\ call.views.round.rendered

\* the data main loaded and the rows that passed its filter
LoadedData == load_draft_data(committed)

FilteredData ==
    filter_data(LoadedData, call.widgets.selected_years,
                call.widgets.selected_positions, call.widgets.selected_teams)

PicksOfPosition(data, pos) == {r \in data : r.position = pos}

RECURSIVE SumTotals(_)
SumTotals(rows) ==
    IF rows = {} THEN 0
    ELSE LET r == CHOOSE x \in rows : TRUE
         IN  r.Total + SumTotals(rows \ {r})

\* the counts of a breakdown add up: for every position of the data, taken
\* plus remaining is the number of its picks, and over the positions the
\* numbers of picks sum to the number of rows
CountsAddUp(data, column, cutoff) ==
    LET taken(pos) == value_counts(data_through(data, column, cutoff), pos)
        remaining(pos) == value_counts(data_after(data, column, cutoff), pos)
        totals == {[Position |-> pos, Total |-> taken(pos) + remaining(pos)] :
                      pos \in unique(data, "position")}
    IN  /\ \A pos \in unique(data, "position") :
              taken(pos) + remaining(pos) = Cardinality(PicksOfPosition(data, pos))
        /\ SumTotals(totals) = Cardinality(data)

\* the rows of a breakdown show the counts (in tenths) and add up
RowsShowCounts(rows, data, column, cutoff) ==
    /\ \A row \in rows :
          /\ row.Taken + row.Remaining = row.Total
          /\ row.Taken =
                 10 * Cardinality({r \in PicksOfPosition(data, row.Position) :
                                      r[column] <= cutoff})
          /\ row.Remaining =
                 10 * Cardinality({r \in PicksOfPosition(data, row.Position) :
                                      r[column] > cutoff})
          /\ row.Total = 10 * Cardinality(PicksOfPosition(data, row.Position))
    /\ SumTotals(rows) = 10 * Cardinality(data)

RowsAddUp(rows) == \A row \in rows : row.Taken + row.Remaining = row.Total

Excluded == LoadedData \ FilteredData

\* C17: a pick the year, position and team selections exclude is in none of
\* the five views
C17_FiltersDriveAllViews ==
    TabsRendered =>
        \A v \in {"position", "round", "pick", "team", "lookup"} :
            call.views[v].data \cap Excluded = {}

\* a failure of the connection or of the load query
LoadFails == call.fn = "main" /\ (call.connect_fails \/ ~tables_created)

\* C18: when connecting or the load query fails, main catches the failure
\* and shows a message with a hint; the exception does not leave main
C18_LoadFailureCaught ==
    (LoadFails /\ call.returned) =>
        /\ call.outcome # "exception"
        /\ call.message # "none"


\* ------------------------------------------------------------------------
\* The pick row of one imported row
\* ------------------------------------------------------------------------

\* the row the loop is at converts to a key that a pick of draft_picks has
KeyIsPresent ==
    /\ InLoop
    /\ RowYear(index + 1).ok
    /\ RowOverall(index + 1).ok
    /\ \E p \in draft_picks : HasKeyOfRow(Database, p, index + 1)

\* C19: importing a row whose (draft, overall_pick) key is already present
\* in draft_picks leaves draft_picks as it is: the pick that holds the key
\* keeps its team_id, player_id, round_number, pick_in_round and
\* player_status, whatever team, player, pick number or status the row names.
C19_PresentKeyIsNoOp ==
    [][KeyIsPresent => draft_picks' = draft_picks]_vars

\* two valid rows with one key, another team, player and status: the second
\* was imported and the pick of the key is still the first row
C19_Witness ==
    /\ pc = "rows"
    /\ index = 2
    /\ before.draft_picks = {}
    /\ ValidRow(1) /\ ValidRow(2)
    /\ RowYear(1).val = RowYear(2).val
    /\ RowOverall(1).val = RowOverall(2).val
    /\ RowTeamName(1) # RowTeamName(2)
    /\ RowPlayer(1).last_name # RowPlayer(2).last_name
    /\ RowPlayer(1).status # RowPlayer(2).status
    /\ imported_count = 2
    /\ Cardinality(draft_picks) = 1
    /\ \E p \in draft_picks : IsRow(Database, p, 1)

\* the pick-number cell of row i as written in the CSV file: digits, a dot,
\* digits
IsWrittenPick(i) ==
    /\ IsFloatLiteral(df.rows[i].pick_number)
    /\ IntDigits(df.rows[i].pick_number) # <<>>
    /\ FracDigits(df.rows[i].pick_number) # <<>>

\* the integers written before and after the dot
WrittenRound(i) == DecimalValue(IntDigits(df.rows[i].pick_number))
WrittenPickInRound(i) == DecimalValue(FracDigits(df.rows[i].pick_number))

\* C20: for every imported row the round_number and pick_in_round stored in
\* draft_picks are the integers written before and after the dot of the
\* row's pick-number field in the CSV file; 2.10 is stored as round 2,
\* pick-in-round 10.
C20_StoredAsWritten ==
    pc = "done" =>
        \A i \in 1..Len(df.rows) :
            (ValidRow(i) /\ KeyIsNew(i) /\ IsWrittenPick(i)) =>
                \A p \in committed.draft_picks :
                    HasKeyOfRow(committed, p, i) =>
                        /\ p.round_number = WrittenRound(i)
                        /\ p.pick_in_round = WrittenPickInRound(i)


\* ------------------------------------------------------------------------
\* The commit of an import
\* ------------------------------------------------------------------------

\* a step of import_csv_data
ImportStep == pc = "rows"

\* the step is the commit after the loop
CommitAtEnd ==
    /\ index >= Len(df.rows)
    /\ pc' = "done"
    /\ committed' = Tables

\* C21: import_csv_data commits once, after the last row: in the loop the
\* committed tables are those of the start of the import, the committed
\* tables change in no step but the one that ends the loop and returns, and
\* when an exception stops the run in the loop the database holds none of
\* the inserts of the batch.
C21_OneCommitAtEnd ==
    /\ [](ImportStep => committed = before)
    /\ [][ImportStep =>
             /\ (committed' # committed => CommitAtEnd)
             /\ (pc' = "done" => CommitAtEnd)
             /\ (pc' = "interrupted" => (committed' = before /\ Tables' = before))]_vars

\* an exception stopped the loop after a row was imported and before the
\* last row: the pick is not in the database
C21_Witness ==
    /\ pc = "interrupted"
    /\ index >= 1
    /\ index < Len(df.rows)
    /\ imported_count >= 1
    /\ before.draft_picks = {}
    /\ draft_picks = {}
    /\ committed.draft_picks = {}


\* ------------------------------------------------------------------------
\* The filtered data set of the dashboard
\* ------------------------------------------------------------------------

\* a row satisfies a selection when the selection is empty or holds its value
Satisfies(r, column, selected) == selected = {} \/ r[column] \in selected

\* the picks that satisfy every selection of the widgets
SatisfyingPicks ==
    {r \in LoadedData :
        /\ Satisfies(r, "year", call.widgets.selected_years)
        /\ Satisfies(r, "position", call.widgets.selected_positions)
        /\ Satisfies(r, "team_name", call.widgets.selected_teams)}

NothingSelected ==
    /\ call.widgets.selected_years = {}
    /\ call.widgets.selected_positions = {}
    /\ call.widgets.selected_teams = {}

\* C22: the filtered data set main hands to its tabs is exactly the set of
\* picks that satisfy every non-empty selection (year, position, team); an
\* empty selection restricts nothing, and with nothing selected the
\* filtered set is the whole data set.
C22_FilteredSetExact ==
    (call.fn = "main" /\ call.returned) =>
        \A v \in {"position", "team"} :
            call.views[v].rendered =>
                /\ call.views[v].data = SatisfyingPicks
                /\ NothingSelected => call.views[v].data = LoadedData

\* all three selections made, and a pick that the team selection alone
\* excludes
C22_Witness ==
    /\ TabsRendered
    /\ call.widgets.selected_years # {}
    /\ call.widgets.selected_positions # {}
    /\ call.widgets.selected_teams # {}
    /\ call.views.team.data # {}
    /\ \E r \in LoadedData \ call.views.team.data :
          /\ r.year \in call.widgets.selected_years
          /\ r.position \in call.widgets.selected_positions
          /\ r.team_name \notin call.widgets.selected_teams


\* ------------------------------------------------------------------------
\* The three counters of an import
\* ------------------------------------------------------------------------

CounterSum == imported_count + skipped_count + error_count

\* the step adds one to one counter and nothing to the two others
OneCounterIncremented ==
    /\ CounterSum' = CounterSum + 1
    /\ imported_count' >= imported_count
    /\ skipped_count' >= skipped_count
    /\ error_count' >= error_count

\* C23: at the end of every import_csv_data run imported count + skipped
\* count + error count is the number of data rows of the CSV: every row
\* increments exactly one of the three counters, by one.
C23_CountersSumToRows ==
    /\ [](pc = "done" => CounterSum = Len(df.rows))
    /\ [][(InLoop /\ pc' = "rows") => OneCounterIncremented]_vars

\* an import of a sentinel row and a pick has returned
C23_Witness ==
    /\ pc = "done"
    /\ Len(df.rows) = 2
    /\ skipped_count = 1
    /\ imported_count = 1
    /\ error_count = 0


\* C24: the imported count import_csv_data returns is the number of rows the
\* run added to draft_picks: the row count after the run minus the row
\* count before it.
C24_ImportedCountIsRowsAdded ==
    pc = "done" =>
        imported_count =
            Cardinality(draft_picks) - Cardinality(before.draft_picks)


\* ------------------------------------------------------------------------
\* Teams, players and drafts that no pick refers to
\* ------------------------------------------------------------------------

\* a pick of T refers to the row with this id in the column
Referenced(T, column, id) == \E p \in T.draft_picks : p[column] = id

\* the teams, players and drafts of T that no pick of T refers to
Orphans(T) ==
    [teams |-> {t \in T.teams : ~Referenced(T, "team_id", t.team_id)},
     players |-> {y \in T.players : ~Referenced(T, "player_id", y.player_id)},
     drafts |-> {d \in T.drafts : ~Referenced(T, "draft_id", d.draft_id)}]

\* C25 (as amended): after any sequence of imports every row of drafts is
\* referenced by at least one draft_picks row, and every team and player
\* that a row with a new (draft, overall_pick) key created is referenced by
\* a pick; no team, player or draft that a pick refers to loses its last
\* reference. A team or player without a pick is one that a row created
\* whose key was already present, so that its pick was ignored.
C25_NoOrphanOfNewKey ==
    /\ [](Orphans(Tables).drafts = {} /\ Orphans(committed).drafts = {})
    /\ [][(InLoop /\ ~KeyIsPresent) =>
             /\ Orphans(Tables').teams \subseteq Orphans(Tables).teams
             /\ Orphans(Tables').players \subseteq Orphans(Tables).players]_vars
    /\ [][InLoop =>
             /\ Orphans(Tables').teams \cap teams \subseteq Orphans(Tables).teams
             /\ Orphans(Tables').players \cap players \subseteq Orphans(Tables).players]_vars

\* C25 as stated: after an import every row of teams, players and drafts
\* is referenced by at least one draft_picks row
C25_AsStated ==
    pc = "done" =>
        /\ Orphans(committed).teams = {}
        /\ Orphans(committed).players = {}
        /\ Orphans(committed).drafts = {}

\* an import of two picks with two keys, two teams and two players: every
\* team, player and draft has its pick
C25_Witness ==
    /\ pc = "done"
    /\ Cardinality(committed.draft_picks) = 2
    /\ Cardinality(committed.teams) = 2
    /\ Cardinality(committed.players) = 2
    /\ Cardinality(committed.drafts) = 2
    /\ Orphans(committed) = [teams |-> {}, players |-> {}, drafts |-> {}]


\* ------------------------------------------------------------------------
\* Empty fields of a parsed pick text
\* ------------------------------------------------------------------------

\* the pick text of the call without its quotes and status indicators, cut
\* at every space
TokensOfText == split(remove_status(strip_chars(call.arg, {"\""})), <<" ">>)

\* three tokens or more, none of them empty or whitespace
WellSpaced ==
    /\ Len(TokensOfText) >= 3
    /\ \A i \in 1..Len(TokensOfText) : strip(TokensOfText[i]) # <<>>

FieldsNonEmpty ==
    /\ call.ret.first_name # <<>>
    /\ call.ret.nfl_team # <<>>
    /\ call.ret.position # <<>>

\* C26 (as amended): whenever parse_player_string returns a record for a
\* text that, without its quotes and status indicators, is three or more
\* non-empty tokens with one space between them, the record's first_name,
\* nfl_team and position are non-empty strings.
C26_FieldsOfSpacedTextNonEmpty ==
    (PlayerCallReturned /\ WellSpaced) => (call.ret.parsed /\ FieldsNonEmpty)

\* C26 as stated: every record parse_player_string returns has a non-empty
\* first_name, nfl_team and position
C26_AsStated ==
    (PlayerCallReturned /\ call.ret.parsed) => FieldsNonEmpty

\* a text with a one-word name and without a comma has given the record of
\* the fallback, with a given name, a team and a position
C26_Witness ==
    /\ PlayerCallReturned
    /\ WellSpaced
    /\ Len(TokensOfText) = 3
    /\ ~contains(call.arg, <<",", " ">>)
    /\ call.ret.parsed
    /\ call.ret.first_name = TokensOfText[1]
    /\ call.ret.last_name = <<>>
    /\ FieldsNonEmpty


\* ------------------------------------------------------------------------
\* The tabs of the dashboard
\* ------------------------------------------------------------------------

\* C27: for every selection of the filters over a data set that is not
\* empty, a selection that no pick satisfies included, main renders all
\* five tabs and raises no error.
C27_AllTabsRendered ==
    (call.fn = "main" /\ call.returned /\ ~LoadFails /\ LoadedData # {}) =>
        /\ call.outcome = "returned"
        /\ \A v \in {"position", "round", "pick", "team", "lookup"} :
              call.views[v].rendered


\* ------------------------------------------------------------------------
\* streamlit_app.py: the detail view of player_lookup_tab
\* ------------------------------------------------------------------------

\* s.split(c, 1): cut at the first c
split1(s, c) ==
    LET I == {i \in 1..Len(s) : s[i] = c}
    IN  IF I = {}
        THEN <<s>>
        ELSE <<SubSeq(s, 1, Min(I) - 1), SubSeq(s, Min(I) + 1, Len(s))>>

\* f"{x['first_name']} {x['last_name']} ({x['position']})"
player_label(x) ==
    x.first_name \o <<" ">> \o x.last_name \o <<" ", "(">> \o x.position \o <<")">>

\* lines 1097-1103: the label cut at " (", the name cut at its first space,
\* and the rows with that first and that last name; ~ok is the ValueError
\* of unpacking a name without a space
player_data(found, selected_player) ==
    LET player_name == split(selected_player, <<" ", "(">>)[1]
        names == split1(player_name, " ")
    IN  IF Len(names) # 2
        THEN [ok |-> FALSE, rows |-> {}]
        ELSE [ok |-> TRUE,
              rows |-> {r \in found :
                           r.first_name = names[1] /\ r.last_name = names[2]}]

\* pick texts of players: a plain name, a given name of two words, the
\* same name at another position, a surname with a suffix, a name of one
\* word, and a second pick of the first player
LookupTexts ==
    << <<"L", "a", "m", "b", ",", " ", "C", "e", "e", " ", "D", "A", "L", " ", "W", "R">>,
       <<"B", "o", "w", ",", " ", "A", "l", " ", "R", "a", " ", "D", "E", "T", " ", "W", "R">>,
       <<"L", "a", "m", "b", ",", " ", "C", "e", "e", " ", "D", "A", "L", " ", "Q", "B">>,
       <<"H", "a", "l", "l", " ", "J", "r", ".", ",", " ", "M", "a", "x", " ", "A", "R", "I", " ", "W", "R">>,
       <<"P", "e", "l", "e", " ", "S", "F", " ", "K">>,
       <<"L", "a", "m", "b", ",", " ", "C", "e", "e", " ", "D", "A", "L", " ", "W", "R", " ", "(", "Q", ")">> >>

\* the row of the loaded data for the k-th pick text: the player as
\* parse_player_string gave it to the import
lookup_row(k) ==
    LET player_info == parse_player_string(LookupTexts[k])
    IN  [overall_pick |-> k,
         year |-> 2020 + k,
         first_name |-> player_info.first_name,
         last_name |-> player_info.last_name,
         nfl_team |-> player_info.nfl_team,
         position |-> player_info.position]

LookupRows == {lookup_row(k) : k \in 1..Len(LookupTexts)}

\* the search results, not empty, and the label the user selects, which is
\* the label of one of them
LookupCalls ==
    { [fn |-> "player_lookup_tab",
       filtered_players |-> fp,
       selected_row |-> x,
       selected_player |-> player_label(x),
       returned |-> FALSE, outcome |-> "none", player_data |-> {}] :
         fp \in SUBSET LookupRows \ {{}}, x \in LookupRows }

InitLookup ==
    /\ InitImport
    /\ call \in {c \in LookupCalls : c.selected_row \in c.filtered_players}

\* player_lookup_tab from "if selected_player" on
player_lookup_detail ==
    /\ call.fn = "player_lookup_tab"
    /\ ~call.returned
    /\ \E d \in {player_data(call.filtered_players, call.selected_player)} :
          call' = [call EXCEPT !.returned = TRUE,
                               !.outcome = IF d.ok THEN "returned" ELSE "exception",
                               !.player_data = d.rows]
    /\ UNCHANGED import_vars

NextLookup == player_lookup_detail

SpecLookup == InitLookup /\ [][NextLookup]_vars

\* the search results of the player the label was built from
PicksOfSelectedPlayer ==
    {r \in call.filtered_players :
        /\ r.first_name = call.selected_row.first_name
        /\ r.last_name = call.selected_row.last_name
        /\ r.position = call.selected_row.position}

\* C28: in the player lookup the detail data of a selected label
\* "First Last (POS)" is exactly the set of search results whose player has
\* that first name, that last name and that position: cutting the label
\* gives back the names it was built from, for every name of the parser.
C28_DetailOfLabel ==
    (call.fn = "player_lookup_tab" /\ call.returned) =>
        /\ call.outcome = "returned"
        /\ call.player_data = PicksOfSelectedPlayer


\* ------------------------------------------------------------------------
\* The metrics of the position analysis
\* ------------------------------------------------------------------------

\* the players of the rows: first name, last name, NFL team, position
PlayersOf(data) ==
    {<<r.first_name, r.last_name, r.nfl_team, r.position>> : r \in data}

\* C29: the "Unique Players" metric of the position analysis is the number
\* of distinct players (first name, last name, NFL team, position) among
\* the filtered picks.
C29_UniquePlayersMetric ==
    TabsRendered =>
        call.views.position.unique_players = Cardinality(PlayersOf(FilteredData))


\* ------------------------------------------------------------------------
\* The diagnostic on a file of printable ASCII
\* ------------------------------------------------------------------------

\* the file holds printable ASCII characters and line terminators only
OnlyPrintableAscii(content) ==
    \A k \in 1..Len(content) :
        content[k] \notin not_standard_ascii \/ content[k] \in {"\n", "\r"}

\* C30: for a file of printable ASCII characters (codes 32-126) and line
\* terminators only, find_nonstandard_characters records no occurrence in
\* any of its three categories, reports that no non-standard characters
\* were found, and has three summary totals of zero.
C30_AsciiFileDiagnosedClean ==
    (CleanCalled /\ call.step = "diagnosed"
        /\ OnlyPrintableAscii(call.output_file.content)) =>
        /\ call.total_nonstandard = 0
        /\ call.total_unicode = 0
        /\ call.total_special = 0
        /\ call.none_found

====
